---- MODULE Spec2Model ----
(***************************************************************************)
(* Model of the mod organizer core: the Version / VersionReq domain        *)
(* (src/src/version.rs), the dependency resolver (src/src/resolver.rs),    *)
(* the install executors (src/src/install.rs) and the shared registry      *)
(* cells of GlobalModList (src/src/manifest.rs).                           *)
(***************************************************************************)
EXTENDS Integers, Sequences, FiniteSets, TLC

VARIABLES
    mod_list,         \* resolver / executor: the registry snapshot (ManifestMods)
    request,          \* resolver: the (mod_id, requirement) arguments of the call
    current_install,  \* resolver: the ModMap passed as current_install
    queue,            \* resolver: the VecDeque of (mod_id, requirement)
    ops,              \* resolver: the Vec of per-node operation groups
    result,           \* resolver: the ResolveResult returned, or NoResult
    pc,               \* resolver: position in resolve_install_mod
    installed_mods,   \* VirtualInstall.installed_mods
    operations,       \* the slice handed to perform_operations
    op_index,         \* VirtualInstall: index of the next operation (1-based)
    install_result,   \* VirtualInstall: Result of perform_operations, or NoResult
    start_install,    \* the InstalledState both executors started from
    actual_mods,      \* ActualInstall.installed_mods
    actual_index,     \* ActualInstall: index of the next operation
    actual_result,    \* ActualInstall: Result of perform_operations, or NoResult
    cell_mod_list,    \* GlobalModList.mod_list (the ArcSwap cell)
    cell_hash_table,  \* GlobalModList.mod_hash_table
    cell_reverse,     \* GlobalModList.reverse_hash_table
    snapshots,        \* the registry the list was built from, then the ones to publish
    updates,          \* how many of `snapshots` have been put into mod_list so far
    writer_pc,        \* position of the thread running update_list
    writer_local,     \* recreate_tables: the snapshot it loaded
    reader_pc,        \* position of a reader of the three cells
    reader_view,      \* what the reader has loaded so far
    arcs,             \* the heap of Arc<ManifestMods> allocations, by address
    cell_arc,         \* the address the pointer of GlobalModList.mod_list holds
    reader_arc,       \* the address of the Arc the reader holds, 0 when it holds none
    check_pc,         \* check_for_conflicts: position of the call
    map_order,        \* check_for_conflicts: the order in which `map` and its version maps iterate
    check_guids,      \* check_for_conflicts: GUIDs of `map` still to iterate, in order
    check_guid,       \* check_for_conflicts: file_guid of the running iteration
    check_versions,   \* check_for_conflicts: versions of file_guid still to iterate, in order
    install_files,    \* check_for_conflicts: the HashSet of claimed paths
    conflicts,        \* check_for_conflicts: the Vec of ModConflict
    previous_run,     \* what an earlier call on the same arguments returned
    subject,          \* the Version handed to matches / cmp / eq
    against,          \* the Comparator whose matches is called
    verdict,          \* what Comparator::matches returned, or NoResult
    ordering,         \* what subject.cmp(against.version) returned, or NoResult
    equality,         \* what subject == against.version returned, or NoResult
    lookup,           \* what a HashMap keyed by against.version answered for subject, or NoResult
    text,             \* the string handed to Version::from_str
    parsed,           \* Result of Version::from_str(text), or NoResult
    formatted,        \* parsed.to_string(), or NoResult
    reparsed          \* Result of Version::from_str(formatted), or NoResult

vars == << mod_list, request, current_install, queue, ops, result, pc,
           installed_mods, operations, op_index, install_result, start_install,
           actual_mods, actual_index, actual_result,
           cell_mod_list, cell_hash_table, cell_reverse, snapshots, updates,
           writer_pc, writer_local, reader_pc, reader_view, arcs, cell_arc, reader_arc,
           check_pc, map_order, check_guids, check_guid, check_versions, install_files,
           conflicts, previous_run,
           subject, against, verdict, ordering, equality, lookup,
           text, parsed, formatted, reparsed >>

resolverVars == << mod_list, request, current_install, queue, ops, result, pc >>
virtualVars  == << installed_mods, op_index, install_result >>
actualVars   == << actual_mods, actual_index, actual_result >>
executorVars == << installed_mods, operations, op_index, install_result, start_install,
                   actual_mods, actual_index, actual_result >>
refreshVars  == << cell_mod_list, cell_hash_table, cell_reverse, snapshots, updates,
                   writer_pc, writer_local, reader_pc, reader_view,
                   arcs, cell_arc, reader_arc >>
detectorVars == << check_pc, map_order, check_guids, check_guid, check_versions, install_files,
                   conflicts, previous_run >>
versionVars  == << subject, against, verdict, ordering, equality, lookup,
                   text, parsed, formatted, reparsed >>

----------------------------------------------------------------------------
(* Bounds *)

\* Capacity of the resolver's `ops` vector: the memory the process can give it.
\* No resolution over an acyclic registry of the three GUIDs needs more than
\* four groups, so only a run that goes round a dependency cycle meets it.
MaxOps == 5
\* Longest operation list handed to perform_operations in SpecInstall.
MaxOperations == 3
\* Number of update_list calls the refresh thread makes in SpecRefresh.
MaxUpdates == 2

----------------------------------------------------------------------------
(* Generic helpers *)

\* Option::None of an Option<u16> field
NoField == -1

\* A value that no ResolveResult / Result carries: the call has not returned.
NoResult == [kind |-> "NoResult"]

\* All enumerations of a finite set: the orders a HashMap may iterate it in.
Orders(S) == { s \in [1..Cardinality(S) -> S] : \A i, j \in 1..Cardinality(S) : s[i] = s[j] => i = j }

\* Vec::reverse left out
Reverse_missing(s) == s

RECURSIVE Reverse(_)
Reverse(s) == IF s = << >> THEN << >> ELSE Append(Reverse(Tail(s)), Head(s))

RECURSIVE Flatten(_)
Flatten(ss) == IF ss = << >> THEN << >> ELSE Head(ss) \o Flatten(Tail(ss))

----------------------------------------------------------------------------
(* Version (src/src/version.rs) *)

\* The suffix is an Option<String>; it is modelled by its rank in the
\* ordering of Option<String>: 0 is None, larger numbers are larger strings.
from_major(major) ==
    [major |-> major, minor |-> NoField, patch |-> NoField, revision |-> NoField, suffix |-> 0]

from_minor(major, minor) ==
    [major |-> major, minor |-> minor, patch |-> NoField, revision |-> NoField, suffix |-> 0]

from_patch(major, minor, patch) ==
    [major |-> major, minor |-> minor, patch |-> patch, revision |-> NoField, suffix |-> 0]

from_revision(major, minor, patch, revision) ==
    [major |-> major, minor |-> minor, patch |-> patch, revision |-> revision, suffix |-> 0]

\* Version::from_suffix; the suffix is given by its rank
from_suffix(major, minor, patch, revision, suffix) ==
    [major |-> major, minor |-> minor, patch |-> patch, revision |-> revision, suffix |-> suffix]

\* Version::zero
zero == [major |-> 0, minor |-> NoField, patch |-> NoField, revision |-> NoField, suffix |-> 0]

VersionDefault == from_major(1)

unwrap_or_zero(field) == IF field = NoField THEN 0 ELSE field

has_revision(v) == v.revision # NoField
has_patch(v)    == v.patch # NoField
has_minor(v)    == v.minor # NoField
revision(v)     == unwrap_or_zero(v.revision)
patch(v)        == unwrap_or_zero(v.patch)
minor(v)        == unwrap_or_zero(v.minor)
major(v)        == v.major

\* equality as #[derive(PartialEq)] would give it: field by field
VersionEq_derived(a, b) ==
    /\ a.major = b.major
    /\ a.minor = b.minor
    /\ a.patch = b.patch
    /\ a.revision = b.revision
    /\ a.suffix = b.suffix

\* impl PartialEq for Version
VersionEq(a, b) ==
    /\ a.major = b.major
    /\ unwrap_or_zero(a.minor) = unwrap_or_zero(b.minor)
    /\ unwrap_or_zero(a.patch) = unwrap_or_zero(b.patch)
    /\ unwrap_or_zero(a.revision) = unwrap_or_zero(b.revision)
    /\ a.suffix = b.suffix

IntCmp(x, y) == IF x < y THEN -1 ELSE IF x > y THEN 1 ELSE 0

\* impl Ord for Version: -1 is Less, 0 is Equal, 1 is Greater
VersionCmp(a, b) ==
    IF a.major # b.major THEN IntCmp(a.major, b.major)
    ELSE IF unwrap_or_zero(a.minor) # unwrap_or_zero(b.minor)
         THEN IntCmp(unwrap_or_zero(a.minor), unwrap_or_zero(b.minor))
    ELSE IF unwrap_or_zero(a.patch) # unwrap_or_zero(b.patch)
         THEN IntCmp(unwrap_or_zero(a.patch), unwrap_or_zero(b.patch))
    ELSE IF unwrap_or_zero(a.revision) # unwrap_or_zero(b.revision)
         THEN IntCmp(unwrap_or_zero(a.revision), unwrap_or_zero(b.revision))
    ELSE IntCmp(a.suffix, b.suffix)

\* impl PartialOrd for Version: the comparison operators go through cmp
VersionGe(a, b) == VersionCmp(a, b) >= 0
VersionGt(a, b) == VersionCmp(a, b) > 0
VersionLt(a, b) == VersionCmp(a, b) < 0

----------------------------------------------------------------------------
(* Comparator and VersionReq (src/src/version.rs) *)

\* u16::MAX, the largest value of a numeric field
U16Max == 65535

\* `x + 1` on a u16 as a build without overflow checks computes it
AddOne(x) == (x + 1) % (U16Max + 1)

\* The field the deepest-specified-field arms of matches increment
DeepestField(a) ==
    IF has_patch(a) THEN patch(a) ELSE IF has_minor(a) THEN minor(a) ELSE a.major

\* The caret arms: the first nonzero field among major, minor, patch
CaretField(a) ==
    IF major(a) > 0 THEN major(a) ELSE IF minor(a) > 0 THEN minor(a) ELSE patch(a)

\* Whether the evaluation of matches reaches an increment of a field that
\* holds u16::MAX (the right operand of && is evaluated only when the left
\* one is true); a build with overflow checks panics there.
ComparatorOverflows(c, version) ==
    LET a == c.version IN
    CASE c.op \in {"Exact", "Wildcard"} ->
            /\ ~has_revision(a)
            /\ DeepestField(a) = U16Max
            /\ VersionGe(version, [a EXCEPT !.suffix = 0])
      [] c.op \in {"Greater", "LessEq"} ->
            ~has_revision(a) /\ DeepestField(a) = U16Max
      [] c.op = "Tilde" ->
            /\ (IF has_revision(a) \/ has_patch(a) \/ has_minor(a)
                THEN minor(a) ELSE a.major) = U16Max
            /\ VersionGe(version, [a EXCEPT !.suffix = 0])
      [] c.op = "Caret" ->
            /\ (major(a) > 0 \/ minor(a) > 0 \/ patch(a) > 0)
            /\ CaretField(a) = U16Max
            /\ VersionGe(version, a)
      [] OTHER -> FALSE

ComparatorMatches(c, version) ==
    LET a == c.version IN
    CASE c.op \in {"Exact", "Wildcard"} ->
            IF has_revision(a) THEN VersionEq(version, a)
            ELSE IF has_patch(a) THEN
                /\ VersionGe(version, from_patch(a.major, minor(a), patch(a)))
                /\ VersionLt(version, from_patch(a.major, minor(a), AddOne(patch(a))))
            ELSE IF has_minor(a) THEN
                /\ VersionGe(version, from_minor(a.major, minor(a)))
                /\ VersionLt(version, from_minor(a.major, AddOne(minor(a))))
            ELSE
                /\ VersionGe(version, from_major(a.major))
                /\ VersionLt(version, from_major(AddOne(a.major)))
      [] c.op = "Greater" ->
            IF has_revision(a) THEN VersionGt(version, a)
            ELSE IF has_patch(a) THEN VersionGe(version, from_patch(major(a), minor(a), AddOne(patch(a))))
            ELSE IF has_minor(a) THEN VersionGe(version, from_minor(major(a), AddOne(minor(a))))
            ELSE VersionGe(version, from_major(AddOne(a.major)))
      [] c.op = "GreaterEq" -> VersionGe(version, a)
      [] c.op = "Less" -> VersionLt(version, a)
      [] c.op = "LessEq" ->
            IF has_revision(a) THEN VersionLt(version, a)
            ELSE IF has_patch(a) THEN VersionLt(version, from_patch(major(a), minor(a), AddOne(patch(a))))
            ELSE IF has_minor(a) THEN VersionLt(version, from_minor(major(a), AddOne(minor(a))))
            ELSE VersionLt(version, from_major(AddOne(a.major)))
      [] c.op = "Tilde" ->
            IF has_revision(a) THEN
                /\ VersionGe(version, from_revision(a.major, minor(a), patch(a), revision(a)))
                /\ VersionLt(version, from_minor(a.major, AddOne(minor(a))))
            ELSE IF has_patch(a) THEN
                /\ VersionGe(version, from_patch(a.major, minor(a), patch(a)))
                /\ VersionLt(version, from_minor(a.major, AddOne(minor(a))))
            ELSE IF has_minor(a) THEN
                /\ VersionGe(version, from_minor(a.major, minor(a)))
                /\ VersionLt(version, from_minor(a.major, AddOne(minor(a))))
            ELSE
                /\ VersionGe(version, from_major(a.major))
                /\ VersionLt(version, from_major(AddOne(a.major)))
      [] c.op = "Caret" ->
            IF major(a) > 0 THEN
                /\ VersionGe(version, a)
                /\ VersionLt(version, from_major(AddOne(major(a))))
            ELSE IF minor(a) > 0 THEN
                /\ VersionGe(version, a)
                /\ VersionLt(version, from_minor(0, AddOne(minor(a))))
            ELSE IF patch(a) > 0 THEN
                /\ VersionGe(version, a)
                /\ VersionLt(version, from_patch(0, 0, AddOne(patch(a))))
            ELSE VersionEq(version, a)
      [] c.op = "WildcardAny" -> TRUE

\* VersionReq::matches: every comparator of the list matches
VersionReqMatches(requirement, version) ==
    \A i \in 1..Len(requirement) : ComparatorMatches(requirement[i], version)

----------------------------------------------------------------------------
(* Registry data (src/src/manifest.rs) *)

\* Option::None of an Option<String> / Option<PathBuf>
NoName == "None"

\* A url is kept as the three facts find_filename_from_url reads from it.
Url(tail, ends_with_dll) == [has_slash |-> TRUE, tail |-> tail, ends_with_dll |-> ends_with_dll]

Artifact(url, filename, sha256, install_location) ==
    [url |-> url, filename |-> filename, sha256 |-> sha256, install_location |-> install_location]

\* ModVersion: `conflicts` and `dependencies` are GUID -> requirement maps
\* (None is the empty map)
ModVersion(declared_conflicts, dependencies, artifacts) ==
    [conflicts |-> declared_conflicts, dependencies |-> dependencies, artifacts |-> artifacts]

\* utils::find_filename_from_url(url, ".dll")
find_filename_from_url(url) ==
    IF ~url.ends_with_dll THEN NoName
    ELSE IF ~url.has_slash THEN NoName
    ELSE IF url.tail = "" THEN NoName
    ELSE url.tail

\* ModFile::new: one ModFileArtifact per declared artifact that has a filename
RECURSIVE ModFileArtifacts(_)
ModFileArtifacts(artifacts) ==
    IF artifacts = << >> THEN << >>
    ELSE LET x == Head(artifacts)
             filename == IF x.filename # NoName THEN x.filename ELSE find_filename_from_url(x.url)
             location == IF x.install_location # NoName THEN x.install_location ELSE "/nml_mods"
         IN  IF filename = NoName THEN ModFileArtifacts(Tail(artifacts))
             ELSE << [file_path |-> << location, filename >>, file_hash |-> x.sha256, disabled |-> FALSE] >>
                  \o ModFileArtifacts(Tail(artifacts))

ModFileNew(mod_id, version, mods) ==
    [files |-> IF mod_id \in DOMAIN mods
               THEN IF version \in DOMAIN mods[mod_id].versions
                    THEN ModFileArtifacts(mods[mod_id].versions[version].artifacts)
                    ELSE << >>
               ELSE << >>]

----------------------------------------------------------------------------
(* Resolver (src/src/resolver.rs) *)

InstallMod(mod_id, version)   == [op |-> "InstallMod", mod_id |-> mod_id, version |-> version]
UninstallMod(mod_id, version) == [op |-> "UninstallMod", mod_id |-> mod_id, version |-> version]

ResolveOk(plan) == [kind |-> "Ok", ops |-> plan]
UnableToFind(mod_id, requirement) ==
    [kind |-> "UnableToFind", mod_id |-> mod_id, requirement |-> requirement]

\* the comparator with its arguments the other way round: a.cmp(b)
LatestFirst_ascending(a, b) == VersionCmp(a, b)

\* The comparator handed to sort_by in find_latest_matching: b.cmp(a)
LatestFirst(a, b) == VersionCmp(b, a)

\* Vec::sort_by is a stable sort; insertion of x behind every element that
\* does not compare Greater than it keeps equal elements in their order.
RECURSIVE InsertSorted(_, _)
InsertSorted(x, sorted) ==
    IF sorted = << >> THEN << x >>
    ELSE IF LatestFirst(Head(sorted), x) <= 0
         THEN << Head(sorted) >> \o InsertSorted(x, Tail(sorted))
         ELSE << x >> \o sorted

RECURSIVE SortBy(_)
SortBy(s) ==
    IF s = << >> THEN << >>
    ELSE InsertSorted(s[Len(s)], SortBy(SubSeq(s, 1, Len(s) - 1)))

NotFound == [found |-> FALSE]

\* find_latest_matching without the filter on the requirement
find_latest_matching_unfiltered(mod_id, requirement, mods, order) ==
    IF mod_id \notin DOMAIN mods THEN NotFound
    ELSE IF Len(order) <= 0 THEN NotFound
         ELSE [found |-> TRUE, version |-> Head(SortBy(order))]

\* find_latest_matching; `order` is the order in which mod_info.versions.iter()
\* yields the version keys of mod_id (an enumeration of all of them).
find_latest_matching(mod_id, requirement, mods, order) ==
    IF mod_id \notin DOMAIN mods THEN NotFound
    ELSE LET fitting_versions == SelectSeq(order, LAMBDA version : VersionReqMatches(requirement, version))
         IN  IF Len(fitting_versions) <= 0 THEN NotFound
             ELSE [found |-> TRUE, version |-> Head(SortBy(fitting_versions))]

\* The iteration orders of the version map of mod_id in the registry
VersionOrders(mod_id, mods) ==
    IF mod_id \in DOMAIN mods THEN Orders(DOMAIN mods[mod_id].versions) ELSE { << >> }

\* the `any` test with > in place of >=
InstalledSatisfies_strict(installed_versions, requirement, version) ==
    \E x \in DOMAIN installed_versions :
        VersionReqMatches(requirement, x) /\ VersionGt(x, version)

\* The `any` test of resolve_install_mod: some installed version matches the
\* requirement and is >= the chosen registry version.
InstalledSatisfies(installed_versions, requirement, version) ==
    \E x \in DOMAIN installed_versions :
        VersionReqMatches(requirement, x) /\ VersionGe(x, version)

\* Back of the queue, and the queue without it (VecDeque::pop_back)
Back(q) == q[Len(q)]
PopBack(q) == SubSeq(q, 1, Len(q) - 1)

\* the loop over installed_versions leaving after its first iteration
UninstallPiece_first(mod_id, order) ==
    [i \in 1..(IF Len(order) > 0 THEN 1 ELSE 0) |-> UninstallMod(mod_id, order[i])]

\* The uninstall operations pushed for mod_id, in iteration order `order`
UninstallPiece(mod_id, order) == [i \in 1..Len(order) |-> UninstallMod(mod_id, order[i])]

\* the loop over the dependencies pushing nothing
DependencyEntries_none(dependencies, order) == << >>

\* The queue entries pushed for the dependencies, in iteration order `order`
DependencyEntries(dependencies, order) == [i \in 1..Len(order) |-> << order[i], dependencies[order[i]] >>]

\* while let Some(..) = queue.pop_back(): find_latest_matching found nothing
ResolveUnableToFind ==
    /\ pc = "loop"
    /\ queue # << >>
    /\ LET mod_id == Back(queue)[1]
           requirement == Back(queue)[2]
       IN  \E order \in VersionOrders(mod_id, mod_list) :
            /\ ~find_latest_matching(mod_id, requirement, mod_list, order).found
            /\ result' = UnableToFind(mod_id, requirement)
    /\ queue' = PopBack(queue)
    /\ pc' = "done"
    /\ UNCHANGED << mod_list, request, current_install, ops, executorVars, refreshVars, detectorVars, versionVars >>

\* the popped entry is already satisfied by the installed versions: continue
ResolveSkipInstalled ==
    /\ pc = "loop"
    /\ queue # << >>
    /\ LET mod_id == Back(queue)[1]
           requirement == Back(queue)[2]
       IN  \E order \in VersionOrders(mod_id, mod_list) :
            LET latest == find_latest_matching(mod_id, requirement, mod_list, order)
            IN  /\ latest.found
                /\ mod_id \in DOMAIN current_install
                /\ InstalledSatisfies(current_install[mod_id], requirement, latest.version)
    /\ queue' = PopBack(queue)
    /\ UNCHANGED << mod_list, request, current_install, ops, result, pc, executorVars, refreshVars, detectorVars, versionVars >>

\* The group of operations and the queue entries one iteration produces for
\* the popped entry, one for each iteration order of the maps involved.
NodeOutcomes(mod_id, requirement) ==
    LET latests == { f \in { find_latest_matching(mod_id, requirement, mod_list, o) :
                             o \in VersionOrders(mod_id, mod_list) } : f.found }
        uninstalls == IF mod_id \in DOMAIN current_install
                      THEN { UninstallPiece(mod_id, o) : o \in Orders(DOMAIN current_install[mod_id]) }
                      ELSE { << >> }
        dependencies(l) == mod_list[mod_id].versions[l.version].dependencies
    IN  UNION { { [piece |-> u \o << InstallMod(mod_id, l.version) >>,
                   pushed |-> DependencyEntries(dependencies(l), o)] :
                  u \in uninstalls, o \in Orders(DOMAIN dependencies(l)) } :
                l \in latests }

\* the popped entry needs an install: push its group, enqueue its dependencies
ResolvePlanNode ==
    /\ pc = "loop"
    /\ queue # << >>
    /\ Len(ops) < MaxOps
    /\ LET mod_id == Back(queue)[1]
           requirement == Back(queue)[2]
       IN  \E outcome \in NodeOutcomes(mod_id, requirement) :
            /\ ~ ( /\ mod_id \in DOMAIN current_install
                   /\ InstalledSatisfies(current_install[mod_id], requirement, outcome.piece[Len(outcome.piece)].version) )
            /\ ops' = Append(ops, outcome.piece)
            /\ queue' = PopBack(queue) \o outcome.pushed
    /\ UNCHANGED << mod_list, request, current_install, result, pc, executorVars, refreshVars, detectorVars, versionVars >>

\* as ResolvePlanNode, but `ops` cannot grow any more: the allocation fails
\* and the process aborts inside the call, which returns nothing.
ResolveExhausted ==
    /\ pc = "loop"
    /\ queue # << >>
    /\ Len(ops) >= MaxOps
    /\ LET mod_id == Back(queue)[1]
           requirement == Back(queue)[2]
       IN  \E outcome \in NodeOutcomes(mod_id, requirement) :
            ~ ( /\ mod_id \in DOMAIN current_install
                /\ InstalledSatisfies(current_install[mod_id], requirement, outcome.piece[Len(outcome.piece)].version) )
    /\ pc' = "aborted"
    /\ UNCHANGED << mod_list, request, current_install, queue, ops, result, executorVars, refreshVars, detectorVars, versionVars >>

\* the queue drained: ops.reverse() and the flattened list is returned
ResolveReturnOk ==
    /\ pc = "loop"
    /\ queue = << >>
    /\ result' = ResolveOk(Flatten(Reverse(ops)))
    /\ pc' = "done"
    /\ UNCHANGED << mod_list, request, current_install, queue, ops, executorVars, refreshVars, detectorVars, versionVars >>

----------------------------------------------------------------------------
(* Install executors (src/src/install.rs) *)

InstallOk == [kind |-> "Ok"]
FileNotFound == [kind |-> "Err", error |-> "FileNotFound"]

MapInsert(map, key, value) == [k \in DOMAIN map \cup {key} |-> IF k = key THEN value ELSE map[k]]
MapRemove(map, key) == [k \in DOMAIN map \ {key} |-> map[k]]

\* VirtualInstall::perform_operations, InstallMod arm
VirtualApplyInstall(map, mods, mod_id, version) ==
    LET file == ModFileNew(mod_id, version, mods)
        files == IF mod_id \in DOMAIN map THEN map[mod_id] ELSE << >>
    IN  MapInsert(map, mod_id, MapInsert(files, version, file))

\* the UninstallMod arm without the removal of an emptied GUID entry
VirtualApplyUninstall_keep(map, mod_id, version) ==
    MapInsert(map, mod_id, MapRemove(map[mod_id], version))

\* VirtualInstall::perform_operations, UninstallMod arm once the GUID is found
VirtualApplyUninstall(map, mod_id, version) ==
    LET files == MapRemove(map[mod_id], version)
    IN  IF Cardinality(DOMAIN files) <= 0 THEN MapRemove(map, mod_id)
        ELSE MapInsert(map, mod_id, files)

VirtualRunning == op_index >= 1 /\ install_result = NoResult

\* InstallMod arm
VirtualInstallMod ==
    /\ VirtualRunning
    /\ op_index <= Len(operations)
    /\ operations[op_index].op = "InstallMod"
    /\ installed_mods' = VirtualApplyInstall(installed_mods, mod_list,
                            operations[op_index].mod_id, operations[op_index].version)
    /\ op_index' = op_index + 1
    /\ UNCHANGED << install_result, operations, start_install, actualVars, resolverVars, refreshVars, detectorVars, versionVars >>

\* UninstallMod arm that goes on to the next operation when the GUID has no entry
VirtualUninstallMod_swallow ==
    /\ VirtualRunning
    /\ op_index <= Len(operations)
    /\ operations[op_index].op = "UninstallMod"
    /\ installed_mods' = IF operations[op_index].mod_id \in DOMAIN installed_mods
                         THEN VirtualApplyUninstall(installed_mods,
                                    operations[op_index].mod_id, operations[op_index].version)
                         ELSE installed_mods
    /\ op_index' = op_index + 1
    /\ UNCHANGED << install_result, operations, start_install, actualVars, resolverVars, refreshVars, detectorVars, versionVars >>

\* UninstallMod arm: FileNotFound when the GUID has no entry at all
VirtualUninstallMod ==
    /\ VirtualRunning
    /\ op_index <= Len(operations)
    /\ operations[op_index].op = "UninstallMod"
    /\ IF operations[op_index].mod_id \in DOMAIN installed_mods
       THEN /\ installed_mods' = VirtualApplyUninstall(installed_mods,
                                    operations[op_index].mod_id, operations[op_index].version)
            /\ op_index' = op_index + 1
            /\ UNCHANGED install_result
       ELSE /\ install_result' = FileNotFound
            /\ UNCHANGED << installed_mods, op_index >>
    /\ UNCHANGED << operations, start_install, actualVars, resolverVars, refreshVars, detectorVars, versionVars >>

VirtualReturnOk ==
    /\ VirtualRunning
    /\ op_index > Len(operations)
    /\ install_result' = InstallOk
    /\ UNCHANGED << installed_mods, op_index, operations, start_install, actualVars, resolverVars, refreshVars, detectorVars, versionVars >>

\* The plan of an Ok resolution is applied to a VirtualInstall that holds the
\* InstalledState and the registry the resolver was given.
PreviewPlan ==
    /\ pc = "done"
    /\ result.kind = "Ok"
    /\ op_index = 0
    /\ installed_mods' = current_install
    /\ start_install' = current_install
    /\ operations' = result.ops
    /\ op_index' = 1
    /\ UNCHANGED << install_result, actualVars, resolverVars, refreshVars, detectorVars, versionVars >>

----------------------------------------------------------------------------
(* Resolver inputs *)

GUIDs == {"a", "b", "c"}

Star   == << [version |-> VersionDefault, op |-> "WildcardAny"] >>
ReqOne == << [version |-> from_major(1), op |-> "Exact"] >>
NoReq  == << >>

V1 == from_major(1)
V2 == from_major(2)
V3 == from_major(3)

\* A registry entry whose versions all declare the same dependencies and one
\* artifact each, named after the mod.
MkMod(mod_id, versions, dependencies) ==
    [versions |-> [v \in versions |->
        ModVersion(<< >>, dependencies,
                   << Artifact(Url(mod_id, TRUE), NoName, << mod_id, v.major >>, NoName) >>)]]

\* The dependency map given by one requirement (or NoReq) per target
MkDeps(reqs) == [d \in { g \in DOMAIN reqs : reqs[g] # NoReq } |-> reqs[d]]

MkRegistry(versions, deps) ==
    [g \in { h \in GUIDs : versions[h] # {} } |-> MkMod(g, versions[g], MkDeps(deps[g]))]

MkInstalled(versions, mods) ==
    [g \in { h \in DOMAIN versions : versions[h] # {} } |->
        [v \in versions[g] |-> ModFileNew(g, v, mods)]]

\* Registries: a depends on b and c, b on c, c back on a, each optionally.
ResolverRegistries ==
    { MkRegistry([a |-> va, b |-> vb, c |-> vc],
                 [a |-> [b |-> ab, c |-> ac], b |-> [c |-> bc], c |-> [a |-> ca]]) :
        va \in { {}, {V2}, {V1, V2} }, vb \in { {}, {V1}, {V1, V2} }, vc \in { {}, {V1}, {V1, V3} },
        ab \in { NoReq, Star, ReqOne }, ac \in { NoReq, Star, ReqOne },
        bc \in { NoReq, Star }, ca \in { NoReq, Star } }

ResolverInstalls ==
    { [a |-> ia, b |-> ib, c |-> ic] :
        ia \in { {}, {V1}, {V2} }, ib \in { {}, {V1} }, ic \in { {}, {V1}, {V1, V2} } }

IdleExecutors ==
    /\ installed_mods = << >>
    /\ operations = << >>
    /\ op_index = 0
    /\ install_result = NoResult
    /\ start_install = << >>
    /\ actual_mods = << >>
    /\ actual_index = 0
    /\ actual_result = NoResult

IdleRefresh ==
    /\ cell_mod_list = << >>
    /\ cell_hash_table = << >>
    /\ cell_reverse = << >>
    /\ snapshots = << >>
    /\ updates = 0
    /\ writer_pc = "idle"
    /\ writer_local = << >>
    /\ reader_pc = "idle"
    /\ reader_view = << >>
    /\ arcs = << >>
    /\ cell_arc = 0
    /\ reader_arc = 0

IdleDetector ==
    /\ check_pc = "idle"
    /\ map_order = << >>
    /\ check_guids = << >>
    /\ check_guid = NoName
    /\ check_versions = << >>
    /\ install_files = {}
    /\ conflicts = << >>
    /\ previous_run = NoResult

IdleVersion ==
    /\ subject = VersionDefault
    /\ against = [version |-> VersionDefault, op |-> "WildcardAny"]
    /\ verdict = NoResult
    /\ ordering = NoResult
    /\ equality = NoResult
    /\ lookup = NoResult
    /\ text = << >>
    /\ parsed = NoResult
    /\ formatted = NoResult
    /\ reparsed = NoResult

IdleResolver ==
    /\ request = << >>
    /\ current_install = << >>
    /\ queue = << >>
    /\ ops = << >>
    /\ result = NoResult
    /\ pc = "idle"

\* resolve_install_mod("a", requirement, current_install, mod_list) was called
InitResolve ==
    /\ mod_list \in ResolverRegistries
    /\ current_install \in { MkInstalled(i, mod_list) : i \in ResolverInstalls }
    /\ request \in { << "a", r >> : r \in { Star, ReqOne } }
    /\ queue = << request >>
    /\ ops = << >>
    /\ result = NoResult
    /\ pc = "loop"
    /\ IdleExecutors
    /\ IdleRefresh
    /\ IdleDetector
    /\ IdleVersion

NextResolve ==
    \/ ResolveUnableToFind
    \/ ResolveSkipInstalled
    \/ ResolvePlanNode
    \/ ResolveExhausted
    \/ ResolveReturnOk
    \/ PreviewPlan
    \/ VirtualInstallMod
    \/ VirtualUninstallMod
    \/ VirtualReturnOk

SpecResolve == InitResolve /\ [][NextResolve]_vars

----------------------------------------------------------------------------
(* perform_operations on arbitrary operation lists, Virtual then Actual *)

ActualRunning == actual_index >= 1 /\ actual_result = NoResult /\ install_result # NoResult

\* ActualInstall::perform_operations, InstallMod arm: prints a line
ActualInstallMod ==
    /\ ActualRunning
    /\ actual_index <= Len(operations)
    /\ operations[actual_index].op = "InstallMod"
    /\ actual_index' = actual_index + 1
    /\ UNCHANGED << actual_mods, actual_result, operations, start_install, virtualVars,
                    resolverVars, refreshVars, detectorVars, versionVars >>

\* ActualInstall::perform_operations, UninstallMod arm: prints a line
ActualUninstallMod ==
    /\ ActualRunning
    /\ actual_index <= Len(operations)
    /\ operations[actual_index].op = "UninstallMod"
    /\ actual_index' = actual_index + 1
    /\ UNCHANGED << actual_mods, actual_result, operations, start_install, virtualVars,
                    resolverVars, refreshVars, detectorVars, versionVars >>

ActualReturnOk ==
    /\ ActualRunning
    /\ actual_index > Len(operations)
    /\ actual_result' = InstallOk
    /\ UNCHANGED << actual_mods, actual_index, operations, start_install, virtualVars,
                    resolverVars, refreshVars, detectorVars, versionVars >>

\* The registry both executors hold in SpecInstall
InstallRegistry ==
    MkRegistry([a |-> {V1, V2}, b |-> {V1}, c |-> {}],
               [a |-> [b |-> ReqOne], b |-> [c |-> NoReq], c |-> [a |-> NoReq]])

InstallStarts ==
    { MkInstalled([a |-> ia, b |-> ib], InstallRegistry) :
        ia \in { {}, {V1}, {V1, V2} }, ib \in { {}, {V1} } }

OperationPool ==
    { InstallMod("a", V1), InstallMod("a", V2), InstallMod("b", V1),
      UninstallMod("a", V1), UninstallMod("a", V2), UninstallMod("b", V1) }

OperationLists == UNION { [1..n -> OperationPool] : n \in 0..MaxOperations }

\* A VirtualInstall and an ActualInstall holding the same InstalledState and
\* registry are handed the same operation list.
InitInstall ==
    /\ mod_list = InstallRegistry
    /\ start_install \in InstallStarts
    /\ installed_mods = start_install
    /\ actual_mods = start_install
    /\ operations \in OperationLists
    /\ op_index = 1
    /\ actual_index = 1
    /\ install_result = NoResult
    /\ actual_result = NoResult
    /\ IdleResolver
    /\ IdleRefresh
    /\ IdleDetector
    /\ IdleVersion

NextInstall ==
    \/ VirtualInstallMod
    \/ VirtualUninstallMod
    \/ VirtualReturnOk
    \/ ActualInstallMod
    \/ ActualUninstallMod
    \/ ActualReturnOk

SpecInstall == InitInstall /\ [][NextInstall]_vars

----------------------------------------------------------------------------
(* GlobalModList (src/src/manifest.rs) and its readers *)

\* The (sha256, mod_id, version) triples of all declared artifacts
ArtifactEntries(mods) ==
    UNION { UNION { { << mods[g].versions[v].artifacts[i].sha256, g, v >> :
                      i \in 1..Len(mods[g].versions[v].artifacts) } :
                    v \in DOMAIN mods[g].versions } :
            g \in DOMAIN mods }

\* hashtable_from_mod_list: collecting into a HashMap keeps, for a sha256
\* declared more than once, whichever entry the iteration yields last.
HashTables(mods) ==
    LET entries == ArtifactEntries(mods)
        hashes == { e[1] : e \in entries }
        owners == { << e[2], e[3] >> : e \in entries }
    IN  { t \in [hashes -> owners] : \A h \in hashes : << h, t[h][1], t[h][2] >> \in entries }

\* reverse_hashtable_from_mod_list
reverse_hashtable_from_mod_list(mods) ==
    LET keys == UNION { { << g, v >> : v \in DOMAIN mods[g].versions } : g \in DOMAIN mods }
    IN  [k \in keys |->
            [i \in 1..Len(mods[k[1]].versions[k[2]].artifacts) |->
                mods[k[1]].versions[k[2]].artifacts[i].sha256]]

\* The addresses of the heap: no run allocates more than Len(snapshots) Arcs
Addresses == 1..(MaxUpdates + 1)

\* An allocation that holds `value`, and the memory of a dropped one
Live(value) == [live |-> TRUE, value |-> value]
Freed == [live |-> FALSE, value |-> << >>]

\* The heap after one holder of the Arc at `address` dropped it: the memory
\* is freed unless the Arc is still held elsewhere
Drop(heap, address, still_held) ==
    IF still_held THEN heap ELSE [heap EXCEPT ![address] = Freed]

\* update_list that writes the new list into the allocation the cell
\* points to
UpdateListSwap_in_place ==
    /\ writer_pc = "idle"
    /\ updates < Len(snapshots)
    /\ arcs' = [arcs EXCEPT ![cell_arc] = Live(snapshots[updates + 1])]
    /\ cell_mod_list' = snapshots[updates + 1]
    /\ updates' = updates + 1
    /\ writer_pc' = "recreate_tables"
    /\ UNCHANGED << cell_hash_table, cell_reverse, snapshots, writer_local, reader_pc, reader_view,
                    cell_arc, reader_arc,
                    resolverVars, executorVars, detectorVars, versionVars >>

\* update_list: self.mod_list.swap(Arc::new(manifest_mods)). Arc::new takes
\* any free address; the swap stores it in the cell and the Arc it returns
\* is dropped.
UpdateListSwap ==
    /\ writer_pc = "idle"
    /\ updates < Len(snapshots)
    /\ \E fresh \in { a \in Addresses : ~arcs[a].live } :
        /\ arcs' = Drop([arcs EXCEPT ![fresh] = Live(snapshots[updates + 1])],
                        cell_arc, reader_arc = cell_arc)
        /\ cell_arc' = fresh
    /\ cell_mod_list' = snapshots[updates + 1]
    /\ updates' = updates + 1
    /\ writer_pc' = "recreate_tables"
    /\ UNCHANGED << cell_hash_table, cell_reverse, snapshots, writer_local, reader_pc, reader_view,
                    reader_arc,
                    resolverVars, executorVars, detectorVars, versionVars >>

\* recreate_tables: self.mod_list.load()
RecreateLoad ==
    /\ writer_pc = "recreate_tables"
    /\ writer_local' = cell_mod_list
    /\ writer_pc' = "swap_hash_table"
    /\ UNCHANGED << cell_mod_list, cell_hash_table, cell_reverse, snapshots, updates, reader_pc,
                    reader_view, arcs, cell_arc, reader_arc,
                    resolverVars, executorVars, detectorVars, versionVars >>

\* recreate_tables: self.mod_hash_table.swap(Arc::new(hashtable))
RecreateSwapHashTable ==
    /\ writer_pc = "swap_hash_table"
    /\ cell_hash_table' \in HashTables(writer_local)
    /\ writer_pc' = "swap_reverse"
    /\ UNCHANGED << cell_mod_list, cell_reverse, snapshots, updates, writer_local, reader_pc,
                    reader_view, arcs, cell_arc, reader_arc,
                    resolverVars, executorVars, detectorVars, versionVars >>

\* recreate_tables: self.reverse_hash_table.swap(Arc::new(reverse))
RecreateSwapReverse ==
    /\ writer_pc = "swap_reverse"
    /\ cell_reverse' = reverse_hashtable_from_mod_list(writer_local)
    /\ writer_pc' = "idle"
    /\ UNCHANGED << cell_mod_list, cell_hash_table, snapshots, updates, writer_local, reader_pc,
                    reader_view, arcs, cell_arc, reader_arc,
                    resolverVars, executorVars, detectorVars, versionVars >>

\* a reader loads the registry: mod_list.load_full() as in virtualize
ReaderLoadModList ==
    /\ reader_pc = "idle"
    /\ reader_view' = [mod_list |-> cell_mod_list]
    /\ reader_arc' = cell_arc
    /\ reader_pc' = "has_mod_list"
    /\ UNCHANGED << cell_mod_list, cell_hash_table, cell_reverse, snapshots, updates, writer_pc,
                    writer_local, arcs, cell_arc, resolverVars, executorVars, detectorVars, versionVars >>

\* then the hash table: mod_hash_table.load() as in rescan_mods
ReaderLoadHashTable ==
    /\ reader_pc = "has_mod_list"
    /\ reader_view' = [mod_list |-> reader_view.mod_list, mod_hash_table |-> cell_hash_table]
    /\ reader_pc' = "has_hash_table"
    /\ UNCHANGED << cell_mod_list, cell_hash_table, cell_reverse, snapshots, updates, writer_pc,
                    writer_local, arcs, cell_arc, reader_arc,
                    resolverVars, executorVars, detectorVars, versionVars >>

\* then the reverse table
ReaderLoadReverse ==
    /\ reader_pc = "has_hash_table"
    /\ reader_view' = [mod_list |-> reader_view.mod_list,
                       mod_hash_table |-> reader_view.mod_hash_table,
                       reverse_hash_table |-> cell_reverse]
    /\ reader_pc' = "has_all"
    /\ UNCHANGED << cell_mod_list, cell_hash_table, cell_reverse, snapshots, updates, writer_pc,
                    writer_local, arcs, cell_arc, reader_arc,
                    resolverVars, executorVars, detectorVars, versionVars >>

\* the reader drops what it holds and may read again
ReaderRelease ==
    /\ reader_pc = "has_all"
    /\ reader_view' = << >>
    /\ reader_arc' = 0
    /\ arcs' = Drop(arcs, reader_arc, reader_arc = cell_arc)
    /\ reader_pc' = "idle"
    /\ UNCHANGED << cell_mod_list, cell_hash_table, cell_reverse, snapshots, updates, writer_pc,
                    writer_local, cell_arc, resolverVars, executorVars, detectorVars, versionVars >>

RefreshR0 == MkRegistry([a |-> {V1}, b |-> {}, c |-> {}],
                        [a |-> [b |-> NoReq], b |-> [c |-> NoReq], c |-> [a |-> NoReq]])
RefreshR1 == MkRegistry([a |-> {V1, V2}, b |-> {}, c |-> {}],
                        [a |-> [b |-> NoReq], b |-> [c |-> NoReq], c |-> [a |-> NoReq]])
RefreshR2 == MkRegistry([a |-> {V2}, b |-> {V1}, c |-> {}],
                        [a |-> [b |-> Star], b |-> [c |-> NoReq], c |-> [a |-> NoReq]])

RefreshRegistries == { RefreshR0, RefreshR1, RefreshR2 }

\* The lists of distinct registries: the first is the one the GlobalModList
\* is built from (empty() or from_list), the rest are published by update_list.
SnapshotLists ==
    { p \in UNION { [1..n -> RefreshRegistries \cup { << >> }] : n \in 2..(MaxUpdates + 1) } :
        /\ \A i, j \in 1..Len(p) : p[i] = p[j] => i = j
        /\ \A i \in 2..Len(p) : p[i] # << >> }

\* GlobalModList::empty() or GlobalModList::from_list(snapshots[1]) was built,
\* the refresh thread will publish the other snapshots, a reader runs beside it.
InitRefresh ==
    /\ snapshots \in SnapshotLists
    /\ cell_mod_list = snapshots[1]
    /\ cell_hash_table \in HashTables(snapshots[1])
    /\ cell_reverse = reverse_hashtable_from_mod_list(snapshots[1])
    /\ writer_local = snapshots[1]
    /\ updates = 1
    /\ writer_pc = "idle"
    /\ reader_pc = "idle"
    /\ reader_view = << >>
    /\ arcs = [a \in Addresses |-> IF a = 1 THEN Live(snapshots[1]) ELSE Freed]
    /\ cell_arc = 1
    /\ reader_arc = 0
    /\ mod_list = << >>
    /\ IdleResolver
    /\ IdleExecutors
    /\ IdleDetector
    /\ IdleVersion

NextRefresh ==
    \/ UpdateListSwap
    \/ RecreateLoad
    \/ RecreateSwapHashTable
    \/ RecreateSwapReverse
    \/ ReaderLoadModList
    \/ ReaderLoadHashTable
    \/ ReaderLoadReverse
    \/ ReaderRelease

SpecRefresh == InitRefresh /\ [][NextRefresh]_vars

\* The loop of resolve_install_mod always takes its next step; so does an
\* executor that was started.
LiveSpecResolve == SpecResolve /\ WF_vars(NextResolve)

----------------------------------------------------------------------------
(* Properties of the resolver *)

\* The registry versions of mod_id that satisfy the requirement
Satisfying(mod_id, requirement) ==
    IF mod_id \in DOMAIN mod_list
    THEN { v \in DOMAIN mod_list[mod_id].versions : VersionReqMatches(requirement, v) }
    ELSE {}

\* InstalledState holds a version of mod_id that satisfies the requirement
\* and is >= every registry version satisfying it
AlreadySatisfied(mod_id, requirement) ==
    /\ mod_id \in DOMAIN current_install
    /\ \E x \in DOMAIN current_install[mod_id] :
        /\ VersionReqMatches(requirement, x)
        /\ \A w \in Satisfying(mod_id, requirement) : VersionCmp(x, w) >= 0

Popped == pc = "loop" /\ queue # << >>

ReturnedOk == pc = "done" /\ result.kind = "Ok"

\* C1: resolve_install_mod terminates for every registry and InstalledState:
\* the call eventually returns Ok or UnableToFind, also when the dependency
\* declarations form a cycle.
\* (Over a cycle the loop pops and pushes the same entries again and again,
\* mod_list and current_install never change, and every round adds a group
\* to `ops`; the only end of such a run is the failed allocation of
\* ResolveExhausted, which returns neither value.)
C1_ResolveTerminates == <>(pc = "done" /\ result.kind \in {"Ok", "UnableToFind"})

\* C2: when the popped (GUID, requirement) has no satisfying registry version
\* (GUID absent, or no version matches), the call returns UnableToFind with
\* exactly that GUID and requirement and carries no operations, whatever
\* groups were produced before.
C2_UnableToFindAborts ==
    [][ (Popped /\ Satisfying(Back(queue)[1], Back(queue)[2]) = {})
        => (pc' = "done" /\ result' = [kind |-> "UnableToFind",
                                       mod_id |-> Back(queue)[1],
                                       requirement |-> Back(queue)[2]]) ]_vars

\* C2 witness: UnableToFind was returned after groups had been produced
C2_Witness == pc = "done" /\ result.kind = "UnableToFind" /\ Len(ops) >= 2

\* The requested GUID is installed at the latest version of the registry
\* and the request is "*".
RootInstalledAtLatest ==
    /\ request[2] = Star
    /\ request[1] \in DOMAIN mod_list
    /\ request[1] \in DOMAIN current_install
    /\ \E x \in DOMAIN current_install[request[1]] :
        /\ x \in DOMAIN mod_list[request[1]].versions
        /\ \A w \in DOMAIN mod_list[request[1]].versions : VersionCmp(x, w) >= 0

\* C3: a popped GUID that InstalledState already holds at a version that
\* satisfies the requirement and is >= the highest satisfying registry
\* version produces no operation and enqueues nothing; resolve(GUID, "*")
\* with GUID installed at the registry's latest version returns Ok([]).
C3_AlreadySatisfiedSkipped ==
    /\ [][ (Popped /\ Satisfying(Back(queue)[1], Back(queue)[2]) # {}
                   /\ AlreadySatisfied(Back(queue)[1], Back(queue)[2]))
           => (ops' = ops /\ queue' = PopBack(queue) /\ pc' = "loop" /\ result' = result) ]_vars
    /\ [](pc = "done" /\ RootInstalledAtLatest => result = [kind |-> "Ok", ops |-> << >>])

\* C3 witness: Ok([]) was returned for a root installed at the latest
\* version, whose registry entry declares a dependency that is neither in the
\* registry nor installed
C3_Witness ==
    /\ ReturnedOk /\ result.ops = << >> /\ RootInstalledAtLatest
    /\ \E x \in DOMAIN current_install[request[1]] \cap DOMAIN mod_list[request[1]].versions :
        \E d \in DOMAIN mod_list[request[1]].versions[x].dependencies :
            d \notin DOMAIN mod_list /\ d \notin DOMAIN current_install

\* The dependencies the registry entry of an InstallMod operation declares
DeclaredDependencies(o) == mod_list[o.mod_id].versions[o.version].dependencies

\* C4: in every Ok plan, each InstallMod(g, v) is preceded by an
\* InstallMod(d, w), w satisfying R, for every dependency (d, R) declared by
\* (g, v) that InstalledState did not already satisfy.
C4_LeavesFirst ==
    ReturnedOk =>
        \A i \in 1..Len(result.ops) :
            result.ops[i].op = "InstallMod" =>
                \A d \in DOMAIN DeclaredDependencies(result.ops[i]) :
                    ~AlreadySatisfied(d, DeclaredDependencies(result.ops[i])[d]) =>
                        \E j \in 1..(i - 1) :
                            /\ result.ops[j].op = "InstallMod"
                            /\ result.ops[j].mod_id = d
                            /\ VersionReqMatches(DeclaredDependencies(result.ops[i])[d],
                                                 result.ops[j].version)

\* C4 witness: an Ok plan with a chain of three installs, a needing b needing c
C4_Witness ==
    /\ ReturnedOk
    /\ \E i, j, k \in 1..Len(result.ops) :
        /\ i < j /\ j < k
        /\ result.ops[i].op = "InstallMod" /\ result.ops[i].mod_id = "c"
        /\ result.ops[j].op = "InstallMod" /\ result.ops[j].mod_id = "b"
        /\ result.ops[k].op = "InstallMod" /\ result.ops[k].mod_id = "a"
        /\ "c" \in DOMAIN DeclaredDependencies(result.ops[j])
        /\ "b" \in DOMAIN DeclaredDependencies(result.ops[k])
        /\ "c" \notin DOMAIN DeclaredDependencies(result.ops[k])

\* The requirements that occur in the model
Requirements == { Star, ReqOne }

\* C5: every InstallMod the resolver emits names the highest registry
\* version that satisfies the requirement being processed, and
\* find_latest_matching returns None exactly when the GUID is not in the
\* registry or none of its versions satisfies the requirement.
C5_LatestMatching ==
    /\ [](\A g \in GUIDs, r \in Requirements :
            \A order \in VersionOrders(g, mod_list) :
                LET f == find_latest_matching(g, r, mod_list, order)
                IN  /\ f.found <=> Satisfying(g, r) # {}
                    /\ f.found => /\ f.version \in Satisfying(g, r)
                                  /\ \A w \in Satisfying(g, r) : VersionCmp(f.version, w) >= 0)
    /\ [][ Len(ops') > Len(ops) =>
            LET piece == ops'[Len(ops')]
                install == piece[Len(piece)]
            IN  /\ install.op = "InstallMod"
                /\ install.mod_id = Back(queue)[1]
                /\ install.version \in Satisfying(Back(queue)[1], Back(queue)[2])
                /\ \A w \in Satisfying(Back(queue)[1], Back(queue)[2]) :
                        VersionCmp(install.version, w) >= 0
                /\ \A n \in 1..(Len(piece) - 1) : piece[n].op = "UninstallMod" ]_vars

\* C5 witness: an InstallMod was emitted for a GUID of which two registry
\* versions satisfied the requirement
C5_Witness ==
    \E n \in 1..Len(ops) :
        LET install == ops[n][Len(ops[n])]
        IN  /\ Cardinality(DOMAIN mod_list[install.mod_id].versions) >= 2
            /\ \A w \in DOMAIN mod_list[install.mod_id].versions : VersionCmp(install.version, w) >= 0
            /\ install.mod_id = "c" /\ Len(ops[n]) >= 2

\* C6: applied in order to the InstalledState the resolver was given, no
\* UninstallMod of an Ok plan reaches a (GUID, Version) that is absent at
\* that step.
C6_UninstallTargetsInstalled ==
    (VirtualRunning /\ op_index <= Len(operations) /\ operations[op_index].op = "UninstallMod")
        => /\ operations[op_index].mod_id \in DOMAIN installed_mods
           /\ operations[op_index].version \in DOMAIN installed_mods[operations[op_index].mod_id]

----------------------------------------------------------------------------
(* Properties of the registry refresh *)

\* The position of a registry in the order of publication
Generation(mods) == CHOOSE i \in 1..Len(snapshots) : snapshots[i] = mods

\* C7: a reader that loads mod_list and then mod_hash_table /
\* reverse_hash_table never holds a registry snapshot together with tables
\* derived from a snapshot published before it.
C7_TablesNotOlderThanRegistry ==
    /\ reader_pc \in {"has_hash_table", "has_all"} =>
        \E j \in Generation(reader_view.mod_list)..Len(snapshots) :
            reader_view.mod_hash_table \in HashTables(snapshots[j])
    /\ reader_pc = "has_all" =>
        \E j \in Generation(reader_view.mod_list)..Len(snapshots) :
            reader_view.reverse_hash_table = reverse_hashtable_from_mod_list(snapshots[j])

----------------------------------------------------------------------------
(* Properties of the executors *)

\* The (GUID, Version, ModFile) entries of an InstalledState
Entries(map) == UNION { { << g, v, map[g][v] >> : v \in DOMAIN map[g] } : g \in DOMAIN map }

\* The UninstallMod operation the VirtualInstall is about to apply
AtUninstall ==
    VirtualRunning /\ op_index <= Len(operations) /\ operations[op_index].op = "UninstallMod"

EntryPresent(map, o) == o.mod_id \in DOMAIN map /\ o.version \in DOMAIN map[o.mod_id]

\* C8: Virtual UninstallMod(g, v) fails with FileNotFound and leaves the
\* installed state unchanged whenever the (GUID, Version) entry is absent (g
\* not installed, or installed only at other versions); when the entry is
\* present it removes exactly that entry.
C8_UninstallAbsentFails ==
    [][ AtUninstall =>
        IF EntryPresent(installed_mods, operations[op_index])
        THEN /\ install_result' = NoResult
             /\ Entries(installed_mods') =
                    { e \in Entries(installed_mods) :
                        ~(e[1] = operations[op_index].mod_id /\ e[2] = operations[op_index].version) }
             /\ \A g \in DOMAIN installed_mods' : DOMAIN installed_mods'[g] # {}
        ELSE /\ install_result' = FileNotFound
             /\ installed_mods' = installed_mods ]_vars

\* One operation applied to an InstalledState; an UninstallMod of a GUID
\* that has no entry fails.
OperationFails(map, o) == o.op = "UninstallMod" /\ o.mod_id \notin DOMAIN map

OperationEffect(map, o) ==
    IF o.op = "InstallMod" THEN VirtualApplyInstall(map, mod_list, o.mod_id, o.version)
    ELSE VirtualApplyUninstall(map, o.mod_id, o.version)

\* The operations of `list` from index i on, applied in order to `map` up to
\* the first that fails
RECURSIVE InOrder(_, _, _)
InOrder(map, list, i) ==
    IF i > Len(list) THEN [result |-> InstallOk, map |-> map, index |-> i]
    ELSE IF OperationFails(map, list[i]) THEN [result |-> FileNotFound, map |-> map, index |-> i]
    ELSE InOrder(OperationEffect(map, list[i]), list, i + 1)

\* C9: VirtualInstall::perform_operations applies the operations in list
\* order and is not transactional: when operation i is the first to fail
\* the call returns its error, the installed state is the result of
\* operations 0..i-1, and nothing after i is applied.
C9_SequentialNotTransactional ==
    /\ [](op_index >= 1 /\ install_result = NoResult =>
            LET done == InOrder(start_install, SubSeq(operations, 1, op_index - 1), 1)
            IN  done.result = InstallOk /\ installed_mods = done.map)
    /\ [](op_index >= 1 /\ install_result # NoResult =>
            LET whole == InOrder(start_install, operations, 1)
            IN  /\ install_result = whole.result
                /\ installed_mods = whole.map
                /\ op_index = whole.index)
    /\ [][ install_result # NoResult => UNCHANGED << installed_mods, op_index, install_result >> ]_vars

\* C9 witness: the second of three operations failed after the first had
\* changed the installed state, which was kept
C9_Witness ==
    /\ install_result = FileNotFound
    /\ Len(operations) = 3
    /\ op_index = 2
    /\ installed_mods # start_install

\* C10: started from the same InstalledState and registry and given the same
\* operation list, the Virtual and the Actual executor return the same
\* result and expose the same mod_map.
C10_SameContract ==
    (install_result # NoResult /\ actual_result # NoResult /\ actual_index >= 1) =>
        (install_result = actual_result /\ installed_mods = actual_mods)

----------------------------------------------------------------------------
(* ConflictDetector: ModInstall::check_for_conflicts (src/src/install.rs) *)

VersionConflict(guid) == [kind |-> "VersionConflict", guid |-> guid]
DirectConflict(this, conflict_with) ==
    [kind |-> "DirectConflict", this |-> this, conflict_with |-> conflict_with]
DependencyMissing(this, needs) ==
    [kind |-> "DependencyMissing", this |-> this, needs |-> needs]
DependencyMismatch(this, needs, found_versions) ==
    [kind |-> "DependencyMismatch", this |-> this, needs |-> needs,
     found_versions |-> found_versions]
IncompleteInstall(this, missing_file) ==
    [kind |-> "IncompleteInstall", this |-> this, missing_file |-> missing_file]
FileConflict(this, already_exists) ==
    [kind |-> "FileConflict", this |-> this, already_exists |-> already_exists]

\* The path check_for_conflicts computes for an artifact
ArtifactFilename(artifact) ==
    LET named == IF artifact.filename # NoName THEN artifact.filename
                 ELSE find_filename_from_url(artifact.url)
    IN  IF named # NoName THEN named ELSE "unknown.dll"

ArtifactFilepath(artifact) ==
    << IF artifact.install_location # NoName THEN artifact.install_location ELSE "/nml_mods",
       ArtifactFilename(artifact) >>

\* for artifact in &version.artifacts: the conflicts pushed and the claimed
\* paths afterwards, `claimed` being install_files before the loop
RECURSIVE ArtifactChecks(_, _, _, _)
ArtifactChecks(this, file, artifacts, claimed) ==
    IF artifacts = << >> THEN [install_files |-> claimed, conflicts |-> << >>]
    ELSE LET artifact == Head(artifacts)
             filepath == ArtifactFilepath(artifact)
             file_conflict == IF filepath \in claimed
                              THEN << FileConflict(this, filepath) >> ELSE << >>
             incomplete == IF ~ \E i \in 1..Len(file.files) :
                                    file.files[i].file_hash = artifact.sha256
                           THEN << IncompleteInstall(this, ArtifactFilename(artifact)) >>
                           ELSE << >>
             rest == ArtifactChecks(this, file, Tail(artifacts), claimed \cup { filepath })
         IN  [install_files |-> rest.install_files,
              conflicts |-> file_conflict \o incomplete \o rest.conflicts]

\* the dependency loop with `all` in place of `any`: a mismatch is reported
\* as soon as one installed version fails the requirement
RECURSIVE DependencyChecks_all(_, _, _, _, _)
DependencyChecks_all(this, dependencies, order, map, listing) ==
    IF order = << >> THEN << >>
    ELSE LET dependency_guid == Head(order)
             needs == << dependency_guid, dependencies[dependency_guid] >>
             pushed ==
                IF dependency_guid \in DOMAIN map
                THEN IF ~ \A v \in DOMAIN map[dependency_guid] : VersionReqMatches(needs[2], v)
                     THEN << DependencyMismatch(this, needs, listing[dependency_guid]) >>
                     ELSE << >>
                ELSE << DependencyMissing(this, needs) >>
         IN  pushed \o DependencyChecks_all(this, dependencies, Tail(order), map, listing)

\* for (dependency_guid, dependency_info) in mod_dependencies, iterated in
\* `order`; `listing` gives the iteration order of each installed version map
RECURSIVE DependencyChecks(_, _, _, _, _)
DependencyChecks(this, dependencies, order, map, listing) ==
    IF order = << >> THEN << >>
    ELSE LET dependency_guid == Head(order)
             needs == << dependency_guid, dependencies[dependency_guid] >>
             pushed ==
                IF dependency_guid \in DOMAIN map
                THEN IF ~ \E v \in DOMAIN map[dependency_guid] : VersionReqMatches(needs[2], v)
                     THEN << DependencyMismatch(this, needs, listing[dependency_guid]) >>
                     ELSE << >>
                ELSE << DependencyMissing(this, needs) >>
         IN  pushed \o DependencyChecks(this, dependencies, Tail(order), map, listing)

\* Iterator::find over mod_conflict.iter(): the first version, in iteration
\* order, that the conflict requirement matches
RECURSIVE FindMatching(_, _)
FindMatching(requirement, versions) ==
    IF versions = << >> THEN NotFound
    ELSE IF VersionReqMatches(requirement, Head(versions))
         THEN [found |-> TRUE, version |-> Head(versions)]
         ELSE FindMatching(requirement, Tail(versions))

\* the conflict loop with `filter` in place of `find`: one DirectConflict for
\* every installed version the requirement matches
RECURSIVE ConflictChecks_filter(_, _, _, _, _)
ConflictChecks_filter(this, declared, order, map, listing) ==
    IF order = << >> THEN << >>
    ELSE LET conflict_guid == Head(order)
             hits == IF conflict_guid \in DOMAIN map
                     THEN SelectSeq(listing[conflict_guid],
                                    LAMBDA v : VersionReqMatches(declared[conflict_guid], v))
                     ELSE << >>
         IN  [i \in 1..Len(hits) |-> DirectConflict(this, << conflict_guid, hits[i] >>)]
             \o ConflictChecks_filter(this, declared, Tail(order), map, listing)

\* for (conflict_guid, conflict_info) in mod_conflicts, iterated in `order`
RECURSIVE ConflictChecks(_, _, _, _, _)
ConflictChecks(this, declared, order, map, listing) ==
    IF order = << >> THEN << >>
    ELSE LET conflict_guid == Head(order)
             pushed ==
                IF conflict_guid \in DOMAIN map
                THEN LET hit == FindMatching(declared[conflict_guid], listing[conflict_guid])
                     IN  IF hit.found
                         THEN << DirectConflict(this, << conflict_guid, hit.version >>) >>
                         ELSE << >>
                ELSE << >>
         IN  pushed \o ConflictChecks(this, declared, Tail(order), map, listing)

\* The iteration orders of a ModMap: of its GUIDs and of each version map.
\* A HashMap that is not modified iterates in the same order every time.
MapOrders(map) ==
    { [guids |-> g, versions |-> l] :
        g \in Orders(DOMAIN map),
        l \in { f \in [DOMAIN map -> UNION { Orders(DOMAIN map[k]) : k \in DOMAIN map }] :
                    \A k \in DOMAIN map : f[k] \in Orders(DOMAIN map[k]) } }

CheckRunning == check_pc = "loop"

\* for (file_guid, mod_files) in map: the next GUID, its VersionConflict
CheckNextGuid ==
    /\ CheckRunning
    /\ check_versions = << >>
    /\ check_guids # << >>
    /\ LET file_guid == Head(check_guids)
       IN  /\ conflicts' = IF Cardinality(DOMAIN installed_mods[file_guid]) > 1
                           THEN Append(conflicts, VersionConflict(file_guid))
                           ELSE conflicts
           /\ check_guid' = file_guid
           /\ check_versions' = map_order.versions[file_guid]
    /\ check_guids' = Tail(check_guids)
    /\ UNCHANGED << check_pc, map_order, install_files, previous_run,
                    resolverVars, executorVars, refreshVars, versionVars >>

\* for (file_version, file) in mod_files: the whole body for one mod file
CheckModFile ==
    /\ CheckRunning
    /\ check_versions # << >>
    /\ LET file_version == Head(check_versions)
           this == << check_guid, file_version >>
           file == installed_mods[check_guid][file_version]
       IN  IF /\ check_guid \in DOMAIN mod_list
              /\ file_version \in DOMAIN mod_list[check_guid].versions
           THEN LET version_info == mod_list[check_guid].versions[file_version]
                    files == ArtifactChecks(this, file, version_info.artifacts, install_files)
                IN  \E dependency_order \in Orders(DOMAIN version_info.dependencies),
                       conflict_order \in Orders(DOMAIN version_info.conflicts) :
                        /\ install_files' = files.install_files
                        /\ conflicts' = conflicts \o files.conflicts
                                \o DependencyChecks(this, version_info.dependencies,
                                        dependency_order, installed_mods, map_order.versions)
                                \o ConflictChecks(this, version_info.conflicts,
                                        conflict_order, installed_mods, map_order.versions)
           ELSE UNCHANGED << install_files, conflicts >>
    /\ check_versions' = Tail(check_versions)
    /\ UNCHANGED << check_pc, map_order, check_guids, check_guid, previous_run,
                    resolverVars, executorVars, refreshVars, versionVars >>

\* both loops are over: `conflicts` is returned
CheckReturn ==
    /\ CheckRunning
    /\ check_versions = << >>
    /\ check_guids = << >>
    /\ check_pc' = "done"
    /\ UNCHANGED << map_order, check_guids, check_guid, check_versions, install_files,
                    conflicts, previous_run,
                    resolverVars, executorVars, refreshVars, versionVars >>

\* check_for_conflicts is called a second time on the same InstalledState and
\* registry, held in maps that iterate in an order of their own
CheckAgain ==
    /\ check_pc = "done"
    /\ previous_run = NoResult
    /\ previous_run' = [kind |-> "Returned", conflicts |-> conflicts]
    /\ map_order' \in MapOrders(installed_mods)
    /\ check_guids' = map_order'.guids
    /\ check_guid' = NoName
    /\ check_versions' = << >>
    /\ install_files' = {}
    /\ conflicts' = << >>
    /\ check_pc' = "loop"
    /\ UNCHANGED << resolverVars, executorVars, refreshVars, versionVars >>

----------------------------------------------------------------------------
(* check_for_conflicts: inputs and specification *)

\* "^0.1"
CaretZeroOne == << [version |-> from_minor(0, 1), op |-> "Caret"] >>

\* A registry entry whose versions declare the given conflicts and
\* dependencies and the artifacts `artifacts_of[v]`
MkDeclaredMod(versions, declared_conflicts, dependencies, artifacts_of) ==
    [versions |-> [v \in versions |->
        ModVersion(MkDeps(declared_conflicts), MkDeps(dependencies), artifacts_of[v])]]

\* One artifact taken from a url, as the artifacts of src/src/tests.rs are;
\* a sha256 is written as a pair (name, number)
UrlArtifact(tail, sha256) == Artifact(Url(tail, TRUE), NoName, sha256, NoName)

\* The registry and ModMap of the test mod_install_multiple_versions
TestMod1 == "test.mod.1"
TestDep  == "test.mod.dep"

TestMultipleVersionsRegistry ==
    (TestMod1 :> MkDeclaredMod({V1}, << >>, (TestDep :> ReqOne),
                               [v \in {V1} |-> << UrlArtifact("test.dll", << "135153", 0 >>) >>]))
    @@ (TestDep :> MkDeclaredMod({V2, V3}, << >>, << >>,
                               [v \in {V2, V3} |-> << UrlArtifact("testdep.dll", << "356357", 0 >>) >>]))

TestMultipleVersionsInstall ==
    MkInstalled((TestMod1 :> {V1}) @@ (TestDep :> {V2, V3}), TestMultipleVersionsRegistry)

\* Registries over a, b, c: a (two artifacts) may depend on b and declare
\* conflicts with b and c; c ships its file under its own name or under a's.
DetectorRegistries ==
    { [a |-> MkDeclaredMod({V1}, [b |-> ab_conflict, c |-> ac_conflict], [b |-> ab],
                [v \in {V1} |-> << UrlArtifact("a.dll", << "a", 1 >>),
                                   Artifact(Url("download", FALSE), "extra.dll",
                                            << "a", 0 >>, NoName) >>]),
       b |-> MkDeclaredMod({V1, V2}, << >>, << >>,
                [v \in {V1, V2} |-> << UrlArtifact("b.dll", << "b", v.major >>) >>]),
       c |-> MkDeclaredMod({V1}, << >>, << >>,
                [v \in {V1} |-> << UrlArtifact(c_file, << "c", 1 >>) >>])] :
        ab \in { NoReq, ReqOne, Star },
        ab_conflict \in { NoReq, Star },
        ac_conflict \in { NoReq, Star, CaretZeroOne },
        c_file \in { "c.dll", "a.dll" } }

DetectorInstalls ==
    { [a |-> ia, b |-> ib, c |-> ic] :
        ia \in { {}, {V1} }, ib \in { {}, {V1}, {V1, V2}, {V2, V3} }, ic \in { {}, {V1} } }

\* The mod file of a with its second artifact missing from the disk
PartialInstall(map) ==
    IF "a" \in DOMAIN map
    THEN MapInsert(map, "a", [v \in DOMAIN map["a"] |->
                                [files |-> SubSeq(map["a"][v].files, 1, 1)]])
    ELSE map

\* The (registry, ModMap) pairs check_for_conflicts is called on
DetectorInputs ==
    { << TestMultipleVersionsRegistry, TestMultipleVersionsInstall >> }
    \cup { << r, MkInstalled(i, r) >> : r \in DetectorRegistries, i \in DetectorInstalls }
    \cup { << r, PartialInstall(MkInstalled(i, r)) >> : r \in DetectorRegistries, i \in DetectorInstalls }

\* virt.check_for_conflicts(&manifest_mods) was called on a VirtualInstall
\* holding installed_mods: `conflicts` and `install_files` are empty and the
\* outer loop is about to start.
InitConflicts ==
    /\ \E input \in DetectorInputs : mod_list = input[1] /\ installed_mods = input[2]
    /\ start_install = installed_mods
    /\ operations = << >>
    /\ op_index = 0
    /\ install_result = NoResult
    /\ actual_mods = << >>
    /\ actual_index = 0
    /\ actual_result = NoResult
    /\ map_order \in MapOrders(installed_mods)
    /\ check_guids = map_order.guids
    /\ check_guid = NoName
    /\ check_versions = << >>
    /\ install_files = {}
    /\ conflicts = << >>
    /\ previous_run = NoResult
    /\ check_pc = "loop"
    /\ IdleResolver
    /\ IdleRefresh
    /\ IdleVersion

NextConflicts ==
    \/ CheckNextGuid
    \/ CheckModFile
    \/ CheckReturn
    \/ CheckAgain

SpecConflicts == InitConflicts /\ [][NextConflicts]_vars

----------------------------------------------------------------------------
(* Properties of check_for_conflicts *)

CheckReturned == check_pc = "done"

\* The installed (GUID, Version) pairs whose version info is in the registry
CheckedEntries ==
    { e \in UNION { { << g, v >> : v \in DOMAIN installed_mods[g] } : g \in DOMAIN installed_mods } :
        e[1] \in DOMAIN mod_list /\ e[2] \in DOMAIN mod_list[e[1]].versions }

VersionInfo(e) == mod_list[e[1]].versions[e[2]]

InstalledVersions(g) == IF g \in DOMAIN installed_mods THEN DOMAIN installed_mods[g] ELSE {}

\* The positions of `list` that hold a conflict of one of `kinds`
OfKind(list, kinds) == { i \in 1..Len(list) : list[i].kind \in kinds }

DependencyKinds == { "DependencyMissing", "DependencyMismatch" }

\* The dependency reports made for the pair (e, d)
DependencyReports(e, d) ==
    { i \in OfKind(conflicts, DependencyKinds) :
        conflicts[i].this = e /\ conflicts[i].needs = << d, VersionInfo(e).dependencies[d] >> }

C12_MultipleVersionsTwoConflicts ==
    (CheckReturned /\ mod_list = TestMultipleVersionsRegistry
                   /\ installed_mods = TestMultipleVersionsInstall) =>
        /\ Len(conflicts) = 2
        /\ \E i, j \in 1..2 :
            /\ conflicts[i] = VersionConflict(TestDep)
            /\ conflicts[j].kind = "DependencyMismatch"
            /\ conflicts[j].this = << TestMod1, V1 >>

\* The DirectConflicts reported for the pair (e, c)
DirectReports(e, c) ==
    { i \in OfKind(conflicts, { "DirectConflict" }) :
        conflicts[i].this = e /\ conflicts[i].conflict_with[1] = c }

\* C13: for every installed (GUID, Version) found in the registry and every
\* conflict (c, R) it declares, the returned list holds exactly one
\* DirectConflict for that pair if some installed version of c satisfies R
\* (naming such a version), and none otherwise; it holds no other
\* DirectConflict.
C13_DirectConflictOutcomes ==
    CheckReturned =>
        /\ \A e \in CheckedEntries : \A c \in DOMAIN VersionInfo(e).conflicts :
            LET reports == DirectReports(e, c)
                hits == { w \in InstalledVersions(c) :
                            VersionReqMatches(VersionInfo(e).conflicts[c], w) }
            IN  IF hits # {}
                THEN /\ Cardinality(reports) = 1
                     /\ \A i \in reports : conflicts[i].conflict_with[2] \in hits
                ELSE reports = {}
        /\ \A i \in OfKind(conflicts, { "DirectConflict" }) :
            /\ conflicts[i].this \in CheckedEntries
            /\ conflicts[i].conflict_with[1] \in DOMAIN VersionInfo(conflicts[i].this).conflicts

\* C13 witness: one call returned a DirectConflict for a conflict on "*" whose
\* target is installed at two versions, and nothing for the conflict "^0.1"
\* whose target is installed at version 1
C13_Witness ==
    /\ CheckReturned
    /\ << "a", V1 >> \in CheckedEntries
    /\ DOMAIN VersionInfo(<< "a", V1 >>).conflicts = { "b", "c" }
    /\ VersionInfo(<< "a", V1 >>).conflicts["b"] = Star
    /\ VersionInfo(<< "a", V1 >>).conflicts["c"] = CaretZeroOne
    /\ InstalledVersions("b") = { V1, V2 }
    /\ InstalledVersions("c") = { V1 }
    /\ Cardinality(DirectReports(<< "a", V1 >>, "b")) = 1
    /\ DirectReports(<< "a", V1 >>, "c") = {}

\* A conflict with the order of found_versions left out
Unordered(c) ==
    IF c.kind = "DependencyMismatch"
    THEN [c EXCEPT !.found_versions = { c.found_versions[n] : n \in 1..Len(c.found_versions) }]
    ELSE c

\* How often the conflict c occurs in `list`
Occurrences(c, list) == Cardinality({ i \in 1..Len(list) : Unordered(list[i]) = c })

SameMultiset(s, t) ==
    /\ Len(s) = Len(t)
    /\ \A i \in 1..Len(s) : Occurrences(Unordered(s[i]), s) = Occurrences(Unordered(s[i]), t)

\* C14: two calls of check_for_conflicts on the same InstalledState and
\* registry, whose maps iterate in different orders, return the same
\* multiset of ModConflict values, the `this`, `already_exists` and
\* `conflict_with` fields included.
C14_SameMultiset ==
    (CheckReturned /\ previous_run # NoResult) => SameMultiset(previous_run.conflicts, conflicts)

----------------------------------------------------------------------------
(* Version: parsing and formatting (src/src/version.rs) *)

\* A string is the sequence of its characters.
DigitChars == << "0", "1", "2", "3", "4", "5", "6", "7", "8", "9" >>

is_digit(ch) == \E d \in 1..10 : DigitChars[d] = ch

DigitValue(ch) == (CHOOSE d \in 1..10 : DigitChars[d] = ch) - 1

\* The suffixes that occur, in the order of String: rank r is SuffixTexts[r]
SuffixTexts == << << "-", "a" >>, << "-", "b" >> >>

SuffixRank(s) == CHOOSE r \in 1..Len(SuffixTexts) : SuffixTexts[r] = s

\* find_suffix: the index of the first character that is not a digit, a dot
\* or a star; 0 is None
find_suffix(ver) ==
    LET stops == { i \in 1..Len(ver) : ~is_digit(ver[i]) /\ ver[i] # "." /\ ver[i] # "*" }
    IN  IF stops = {} THEN 0 ELSE CHOOSE i \in stops : \A j \in stops : i <= j

\* str::split("."): the pieces between the dots; there is always a first one
RECURSIVE Split(_)
Split(s) ==
    IF \A i \in 1..Len(s) : s[i] # "." THEN << s >>
    ELSE LET dot == CHOOSE i \in 1..Len(s) : s[i] = "." /\ \A j \in 1..(i - 1) : s[j] # "."
         IN  << SubSeq(s, 1, dot - 1) >> \o Split(SubSeq(s, dot + 1, Len(s)))

RECURSIVE DecimalValue(_)
DecimalValue(digits) ==
    IF digits = << >> THEN 0
    ELSE DecimalValue(SubSeq(digits, 1, Len(digits) - 1)) * 10 + DigitValue(digits[Len(digits)])

\* str::parse::<u16>: NoField stands for Err(ParseIntError) (empty, invalid
\* digit, or a number above u16::MAX)
ParseU16(piece) ==
    IF piece = << >> THEN NoField
    ELSE IF \E i \in 1..Len(piece) : ~is_digit(piece[i]) THEN NoField
    ELSE IF DecimalValue(piece) > U16Max THEN NoField
    ELSE DecimalValue(piece)

ParseOk(v) == [kind |-> "Ok", version |-> v]
ParseIntError == [kind |-> "Err", error |-> "ParseIntError"]

\* impl FromStr for Version: the major field is parsed with `?`, the other
\* three with .parse().ok()
Version_from_str(s) ==
    LET index == find_suffix(s)
        ver == IF index # 0 THEN SubSeq(s, 1, index - 1) ELSE s
        suffix == IF index # 0 THEN SuffixRank(SubSeq(s, index, Len(s))) ELSE 0
        pieces == Split(ver)
        field(n) == IF Len(pieces) >= n THEN ParseU16(pieces[n]) ELSE NoField
    IN  IF ParseU16(pieces[1]) = NoField THEN ParseIntError
        ELSE ParseOk([major |-> field(1), minor |-> field(2), patch |-> field(3),
                      revision |-> field(4), suffix |-> suffix])

\* u16 as Display writes it
RECURSIVE DecimalText(_)
DecimalText(n) ==
    IF n < 10 THEN << DigitChars[n + 1] >>
    ELSE Append(DecimalText(n \div 10), DigitChars[(n % 10) + 1])

\* Display that writes all four numbers
Version_fmt_padded(v) ==
    DecimalText(v.major)
    \o << "." >> \o DecimalText(minor(v))
    \o << "." >> \o DecimalText(patch(v))
    \o << "." >> \o DecimalText(revision(v))
    \o (IF v.suffix # 0 THEN SuffixTexts[v.suffix] ELSE << >>)

\* impl Display for Version
Version_fmt(v) ==
    DecimalText(v.major)
    \o (IF v.minor # NoField THEN << "." >> \o DecimalText(v.minor) ELSE << >>)
    \o (IF v.patch # NoField THEN << "." >> \o DecimalText(v.patch) ELSE << >>)
    \o (IF v.revision # NoField THEN << "." >> \o DecimalText(v.revision) ELSE << >>)
    \o (IF v.suffix # 0 THEN SuffixTexts[v.suffix] ELSE << >>)

\* text.parse::<Version>()
ParseText ==
    /\ parsed = NoResult
    /\ parsed' = Version_from_str(text)
    /\ UNCHANGED << text, formatted, reparsed, subject, against, verdict,
                    ordering, equality, lookup,
                    resolverVars, executorVars, refreshVars, detectorVars >>

\* parsed.unwrap().to_string()
FormatParsed ==
    /\ parsed # NoResult
    /\ parsed.kind = "Ok"
    /\ formatted = NoResult
    /\ formatted' = [kind |-> "Text", text |-> Version_fmt(parsed.version)]
    /\ UNCHANGED << text, parsed, reparsed, subject, against, verdict,
                    ordering, equality, lookup,
                    resolverVars, executorVars, refreshVars, detectorVars >>

\* formatted.parse::<Version>()
ReparseFormatted ==
    /\ formatted # NoResult
    /\ reparsed = NoResult
    /\ reparsed' = Version_from_str(formatted.text)
    /\ UNCHANGED << text, parsed, formatted, subject, against, verdict,
                    ordering, equality, lookup,
                    resolverVars, executorVars, refreshVars, detectorVars >>

\* The texts of one field: empty, numerals with and without a leading zero,
\* u16::MAX, the number after it, and the wildcard star
FieldTexts ==
    { << >>, << "0" >>, << "1" >>, << "0", "1" >>, << "6", "5", "5", "3", "5" >>,
      << "6", "5", "5", "3", "6" >>, << "*" >> }

\* Most fields a text is made of
MaxFields == 4

RECURSIVE JoinDots(_)
JoinDots(fields) ==
    IF Len(fields) = 1 THEN fields[1]
    ELSE fields[1] \o << "." >> \o JoinDots(Tail(fields))

Texts ==
    { JoinDots(fields) \o suffix :
        fields \in UNION { [1..n -> FieldTexts] : n \in 1..MaxFields },
        suffix \in { << >> } \cup { SuffixTexts[r] : r \in 1..Len(SuffixTexts) } }

InitParse ==
    /\ text \in Texts
    /\ parsed = NoResult
    /\ formatted = NoResult
    /\ reparsed = NoResult
    /\ subject = VersionDefault
    /\ against = [version |-> VersionDefault, op |-> "WildcardAny"]
    /\ verdict = NoResult
    /\ ordering = NoResult
    /\ equality = NoResult
    /\ lookup = NoResult
    /\ mod_list = << >>
    /\ IdleResolver
    /\ IdleExecutors
    /\ IdleRefresh
    /\ IdleDetector

NextParse ==
    \/ ParseText
    \/ FormatParsed
    \/ ReparseFormatted

SpecParse == InitParse /\ [][NextParse]_vars

----------------------------------------------------------------------------
(* Properties of parsing and formatting *)

\* The dot-separated fields of a text, its suffix left out
NumericFields(s) ==
    Split(IF find_suffix(s) # 0 THEN SubSeq(s, 1, find_suffix(s) - 1) ELSE s)

\* A numeral in the range of a field
ValidField(piece) ==
    /\ piece # << >>
    /\ \A i \in 1..Len(piece) : is_digit(piece[i])
    /\ DecimalValue(piece) <= U16Max

\* M, M.I, M.I.P or M.I.P.R, every field a valid numeral
ValidNumeral(s) ==
    /\ Len(NumericFields(s)) \in 1..4
    /\ \A n \in 1..Len(NumericFields(s)) : ValidField(NumericFields(s)[n])

OneZeroZeroZero == << "1", ".", "0", ".", "0", ".", "0" >>

\* C19: for every valid numeral version string at each specificity level,
\* parsing it succeeds, and parsing, formatting and parsing again yields a
\* Version equal to the first parse, the formatted text having as many
\* fields as the original; "1" and "1.0.0.0" parse to equal versions that
\* format differently.
C19_RoundTrip ==
    /\ (parsed # NoResult /\ ValidNumeral(text)) => parsed.kind = "Ok"
    /\ (formatted # NoResult /\ ValidNumeral(text)) =>
            Len(NumericFields(formatted.text)) = Len(NumericFields(text))
    /\ (reparsed # NoResult /\ ValidNumeral(text)) =>
            /\ reparsed.kind = "Ok"
            /\ VersionEq(reparsed.version, parsed.version)
    /\ (formatted # NoResult /\ text = << "1" >>) =>
            LET other == Version_from_str(OneZeroZeroZero)
            IN  /\ other.kind = "Ok"
                /\ VersionEq(parsed.version, other.version)
                /\ formatted.text = << "1" >>
                /\ Version_fmt(other.version) = OneZeroZeroZero

\* C19 witness: "01.0.65535" was parsed, formatted as "1.0.65535" and parsed
\* again
C19_Witness ==
    /\ text = << "0", "1", ".", "0", ".", "6", "5", "5", "3", "5" >>
    /\ reparsed # NoResult
    /\ formatted.text = << "1", ".", "0", ".", "6", "5", "5", "3", "5" >>

\* C20: parsing fails with a VersionError whenever the major field is
\* missing or one of the first four dot-separated fields before the suffix
\* is present but is not a valid integer (empty, out of range or
\* non-numeric); no such text parses to an Ok Version.
C20_InvalidFieldRejected ==
    (parsed # NoResult /\ \E n \in 1..4 : /\ n <= Len(NumericFields(text))
                                          /\ ~ValidField(NumericFields(text)[n]))
        => parsed.kind = "Err"

----------------------------------------------------------------------------
(* Version and Comparator: calls of matches, cmp and eq *)

VersionOps ==
    { "Exact", "Greater", "GreaterEq", "Less", "LessEq", "Tilde", "Caret", "Wildcard",
      "WildcardAny" }

\* The values a numeric field takes in the calls
FieldValues == { 0, 1, U16Max }

\* The revisions of fully specified versions
RevisionValues == { 0, 1 }

\* The versions of the examples in the documentation: "1.2" against 1.2.0,
\* 1.2.5 and 1.3.0; "^1.2.3" against 1.9.0 and 2.0.0
ExampleVersions ==
    { from_minor(1, 2), from_patch(1, 2, 0), from_patch(1, 2, 5), from_patch(1, 3, 0),
      from_patch(1, 2, 3), from_patch(1, 9, 0), from_patch(2, 0, 0) }

\* Versions of every specificity, with and without a suffix
VersionPool ==
    LET plain == { from_major(a) : a \in FieldValues }
                 \cup { from_minor(a, i) : a \in FieldValues, i \in FieldValues }
                 \cup { from_patch(a, i, p) : a \in FieldValues, i \in FieldValues,
                                              p \in FieldValues }
                 \cup { from_revision(a, i, p, r) : a \in FieldValues, i \in FieldValues,
                                                    p \in FieldValues, r \in RevisionValues }
    IN  ExampleVersions \cup { [v EXCEPT !.suffix = x] : v \in plain, x \in { 0, 1 } }

Panic == [kind |-> "Panic"]
Returned(value) == [kind |-> "Returned", value |-> value]

NoCallYet ==
    verdict = NoResult /\ ordering = NoResult /\ equality = NoResult /\ lookup = NoResult

\* What a call c.matches(&v) can come to: a build with overflow checks panics
\* where the increment overflows, one without them goes on with the wrapped
\* value
MatchesOutcomes(c, v) ==
    { Returned(ComparatorMatches(c, v)) }
    \cup (IF ComparatorOverflows(c, v) THEN { Panic } ELSE {})

\* Comparator { version: a, op }.matches(&v)
CallMatches ==
    /\ NoCallYet
    /\ \E v \in VersionPool, a \in VersionPool, op \in VersionOps :
        /\ subject' = v
        /\ against' = [version |-> a, op |-> op]
        /\ verdict' \in MatchesOutcomes(against', v)
    /\ UNCHANGED << ordering, equality, lookup, text, parsed, formatted, reparsed,
                    resolverVars, executorVars, refreshVars, detectorVars >>

\* v.cmp(&a)
CallCmp ==
    /\ NoCallYet
    /\ \E v \in VersionPool, a \in VersionPool :
        /\ subject' = v
        /\ against' = [version |-> a, op |-> "WildcardAny"]
        /\ ordering' = Returned(VersionCmp(v, a))
    /\ UNCHANGED << verdict, equality, lookup, text, parsed, formatted, reparsed,
                    resolverVars, executorVars, refreshVars, detectorVars >>

\* v == a
CallEq ==
    /\ NoCallYet
    /\ \E v \in VersionPool, a \in VersionPool :
        /\ subject' = v
        /\ against' = [version |-> a, op |-> "WildcardAny"]
        /\ equality' = Returned(VersionEq(v, a))
    /\ UNCHANGED << verdict, ordering, lookup, text, parsed, formatted, reparsed,
                    resolverVars, executorVars, refreshVars, detectorVars >>

\* What #[derive(Hash)] writes to the Hasher: the fields in declaration
\* order, an Option as its discriminant followed by the value it holds
OptionFeed(field, none) == IF field = none THEN << 0 >> ELSE << 1, field >>

VersionHash(v) ==
    << v.major >> \o OptionFeed(v.minor, NoField) \o OptionFeed(v.patch, NoField)
    \o OptionFeed(v.revision, NoField) \o OptionFeed(v.suffix, 0)

\* HashMap::get(key) on a map whose one entry is stored under `stored`: the
\* table compares `key` with eq only against entries its hash leads to.
\* Keys that are == but hash differently meet only when the two hashes
\* happen to lead to the same slot.
HashMapGetOutcomes(stored, key) ==
    IF ~VersionEq(stored, key) THEN { FALSE }
    ELSE IF VersionHash(stored) = VersionHash(key) THEN { TRUE }
    ELSE { TRUE, FALSE }

\* versions.insert(a, ..); versions.get(&v); then versions.insert(v, ..) and
\* versions.len(): an insert replaces the entry get finds, or adds one
CallGet ==
    /\ NoCallYet
    /\ \E v \in VersionPool, a \in VersionPool :
        /\ subject' = v
        /\ against' = [version |-> a, op |-> "WildcardAny"]
        /\ \E found \in HashMapGetOutcomes(a, v) :
            lookup' = [kind |-> "Returned", found |-> found, len |-> IF found THEN 1 ELSE 2]
    /\ UNCHANGED << verdict, ordering, equality, text, parsed, formatted, reparsed,
                    resolverVars, executorVars, refreshVars, detectorVars >>

InitVersion ==
    /\ mod_list = << >>
    /\ IdleVersion
    /\ IdleResolver
    /\ IdleExecutors
    /\ IdleRefresh
    /\ IdleDetector

NextVersion ==
    \/ CallMatches
    \/ CallCmp
    \/ CallEq
    \/ CallGet

SpecVersion == InitVersion /\ [][NextVersion]_vars

----------------------------------------------------------------------------
(* Properties of matching and ordering *)

\* (major, minor or 0, patch or 0, revision or 0, suffix)
Key(v) ==
    << v.major, unwrap_or_zero(v.minor), unwrap_or_zero(v.patch),
       unwrap_or_zero(v.revision), v.suffix >>

\* The lexicographic order of such tuples
LexLess(k, l) == \E i \in 1..5 : k[i] < l[i] /\ \A j \in 1..(i - 1) : k[j] = l[j]
LexLessEq(k, l) == k = l \/ LexLess(k, l)

\* The key of A with its deepest specified numeric field incremented
IncrementedKey(a) ==
    IF has_revision(a) THEN [Key(a) EXCEPT ![4] = @ + 1]
    ELSE IF has_patch(a) THEN [Key(a) EXCEPT ![3] = @ + 1]
    ELSE IF has_minor(a) THEN [Key(a) EXCEPT ![2] = @ + 1]
    ELSE [Key(a) EXCEPT ![1] = @ + 1]

MatchesCalled(operators) == verdict # NoResult /\ against.op \in operators

\* C15: an Exact or Wildcard comparator with anchor A matches v if and only
\* if A <= v < A', A' being A with its deepest specified numeric field
\* incremented, at every specificity of A and with or without suffixes.
C15_ExactRange ==
    MatchesCalled({ "Exact", "Wildcard" }) =>
        verdict = Returned(/\ LexLessEq(Key(against.version), Key(subject))
                           /\ LexLess(Key(subject), IncrementedKey(against.version)))

\* C16: a LessEq comparator with anchor A matches v if and only if v is below
\* the end of A's exact range (A with its deepest specified field
\* incremented); so `<=A` matches the version equal to A at every
\* specificity, a fully specified A.I.P.R included.
C16_LessEqRange ==
    MatchesCalled({ "LessEq" }) =>
        /\ verdict = Returned(LexLess(Key(subject), IncrementedKey(against.version)))
        /\ Key(subject) = Key(against.version) => verdict = Returned(TRUE)

\* C17: a Caret comparator with anchor A matches v iff A <= v < (major+1)
\* when A.major > 0; else A <= v < 0.(minor+1) when A.minor > 0; else
\* A <= v < 0.0.(patch+1) when A.patch > 0; else v equals A. So "^1.2.3"
\* matches 1.9.0 and does not match 2.0.0.
C17_CaretRange ==
    MatchesCalled({ "Caret" }) =>
        LET a == against.version
            from == LexLessEq(Key(a), Key(subject))
        IN  verdict = Returned(
                IF a.major > 0
                THEN from /\ LexLess(Key(subject), << a.major + 1, 0, 0, 0, 0 >>)
                ELSE IF minor(a) > 0
                THEN from /\ LexLess(Key(subject), << 0, minor(a) + 1, 0, 0, 0 >>)
                ELSE IF patch(a) > 0
                THEN from /\ LexLess(Key(subject), << 0, 0, patch(a) + 1, 0, 0 >>)
                ELSE Key(subject) = Key(a))

\* -1, 0 or 1 as the lexicographic order of the keys has it
LexCmp(k, l) == IF LexLess(k, l) THEN -1 ELSE IF k = l THEN 0 ELSE 1

\* C18: equality and ordering of versions are lexicographic over (major,
\* minor or 0, patch or 0, revision or 0, suffix): missing fields count as
\* zero, the suffix decides only between versions whose four numbers are
\* equal, the ordering is total (antisymmetric and transitive), and cmp
\* returns Equal exactly when == holds, so "1" and "1.0.0" are equal.
C18_LexicographicOrder ==
    /\ ordering # NoResult =>
        /\ ordering = Returned(LexCmp(Key(subject), Key(against.version)))
        /\ ordering.value = 0 <=> VersionEq(subject, against.version)
        /\ VersionCmp(against.version, subject) = 0 - ordering.value
        /\ \A c \in VersionPool :
            (ordering.value <= 0 /\ VersionCmp(against.version, c) <= 0)
                => VersionCmp(subject, c) <= 0
    /\ equality # NoResult =>
        /\ equality = Returned(Key(subject) = Key(against.version))
        /\ equality.value <=> VersionCmp(subject, against.version) = 0
    /\ (ordering # NoResult /\ subject = from_major(1) /\ against.version = from_patch(1, 0, 0))
        => ordering = Returned(0)
    /\ (equality # NoResult /\ subject = from_major(1) /\ against.version = from_patch(1, 0, 0))
        => equality = Returned(TRUE)

\* C18 witness: "1" == "1.0.0" was evaluated and held
C18_Witness ==
    /\ equality = Returned(TRUE)
    /\ subject = from_major(1)
    /\ against.version = from_patch(1, 0, 0)

----------------------------------------------------------------------------
(* Further properties of Version and Comparator *)

\* revision present implies patch present, patch present implies minor present
Specific(v) == (has_revision(v) => has_patch(v)) /\ (has_patch(v) => has_minor(v))

\* C21: every Version produced by parsing or by the constructors satisfies
\* the specificity invariant: a revision implies a patch, a patch implies a
\* minor.
C21_SpecificityInvariant ==
    /\ Specific(zero) /\ Specific(VersionDefault)
    /\ \A m, i, p, r \in FieldValues :
        /\ Specific(from_major(m)) /\ Specific(from_minor(m, i))
        /\ Specific(from_patch(m, i, p)) /\ Specific(from_revision(m, i, p, r))
        /\ \A x \in 1..Len(SuffixTexts) : Specific(from_suffix(m, i, p, r, x))
    /\ (parsed # NoResult /\ parsed.kind = "Ok") => Specific(parsed.version)
    /\ (reparsed # NoResult /\ reparsed.kind = "Ok") => Specific(reparsed.version)

\* An anchor that is a major number and nothing else
MajorOnly(a) == ~has_minor(a) /\ ~has_patch(a) /\ ~has_revision(a) /\ a.suffix = 0

\* The comparator with Caret and Exact exchanged
Exchanged(c) == [c EXCEPT !.op = IF @ = "Caret" THEN "Exact" ELSE "Caret"]

\* C24: `^A` with a major-only anchor matches exactly the versions `=A`
\* matches, for every A, 0 included, and `^0.0` matches exactly the versions
\* `=0.0` matches: whatever one of the two calls comes to, the other call on
\* the same version can come to as well.
C24_CaretSameAsExact ==
    ( /\ MatchesCalled({ "Caret", "Exact" })
      /\ (MajorOnly(against.version) \/ against.version = from_minor(0, 0)) )
        => verdict \in MatchesOutcomes(Exchanged(against), subject)

\* C30: no call of matches overflows the 16-bit arithmetic: the incremented
\* bound is computed without a panic and without wrapping, also when the
\* incremented field holds 65535.
C30_NoOverflow ==
    verdict # NoResult => (verdict # Panic /\ ~ComparatorOverflows(against, subject))

\* C29: versions that compare equal are interchangeable as map keys: when
\* a == b (as "1" and "1.0.0") their hashes agree, a lookup by b finds the
\* entry stored under a, and inserting b does not add a second key.
C29_EqualKeysInterchangeable ==
    (lookup # NoResult /\ VersionEq(subject, against.version)) =>
        /\ VersionHash(subject) = VersionHash(against.version)
        /\ lookup.found
        /\ lookup.len = 1

----------------------------------------------------------------------------
(* Further properties of the executors and the resolver *)

\* C26: after any sequence of InstallMod and UninstallMod operations on a
\* VirtualInstall that started without an empty version map, no GUID of
\* mod_map maps to an empty version map: the UninstallMod of the last
\* installed version of a GUID removes the GUID entry itself.
C26_NoEmptyVersionMap ==
    /\ [](\A g \in DOMAIN installed_mods : DOMAIN installed_mods[g] # {})
    /\ [][ ( /\ AtUninstall
             /\ EntryPresent(installed_mods, operations[op_index])
             /\ Cardinality(DOMAIN installed_mods[operations[op_index].mod_id]) = 1 )
           => operations[op_index].mod_id \notin DOMAIN installed_mods' ]_vars

\* C26 witness: the first operation uninstalled the only installed version
\* of a GUID, and the GUID is gone from mod_map
C26_Witness ==
    /\ op_index = 2
    /\ operations[1].op = "UninstallMod"
    /\ operations[1].mod_id \in DOMAIN start_install
    /\ DOMAIN start_install[operations[1].mod_id] = { operations[1].version }
    /\ operations[1].mod_id \notin DOMAIN installed_mods
    /\ DOMAIN installed_mods # {}

\* The versions of g in the InstalledState the resolver was given
InputVersions(g) == IF g \in DOMAIN current_install THEN DOMAIN current_install[g] ELSE {}

\* C22: in an Ok plan every InstallMod of a GUID g is immediately preceded
\* by one UninstallMod of g for each version of g in the input
\* InstalledState and by nothing else of its group, and every UninstallMod
\* stands in such a run: the uninstalls of a group never follow its install.
C22_UninstallsBeforeInstall ==
    ReturnedOk =>
        /\ \A i \in 1..Len(result.ops) :
            result.ops[i].op = "InstallMod" =>
                LET g == result.ops[i].mod_id
                    n == Cardinality(InputVersions(g))
                IN  /\ i > n
                    /\ \A j \in (i - n)..(i - 1) :
                        result.ops[j].op = "UninstallMod" /\ result.ops[j].mod_id = g
                    /\ { result.ops[j].version : j \in (i - n)..(i - 1) } = InputVersions(g)
                    /\ (i - n > 1) => result.ops[i - n - 1].op = "InstallMod"
        /\ \A j \in 1..Len(result.ops) :
            result.ops[j].op = "UninstallMod" =>
                /\ j < Len(result.ops)
                /\ result.ops[j + 1].mod_id = result.ops[j].mod_id

\* C22 witness: an Ok plan in which two uninstalls of "c" stand right before
\* the install of "c", itself followed by the install of another GUID
C22_Witness ==
    /\ ReturnedOk
    /\ Cardinality(InputVersions("c")) = 2
    /\ \E i \in 3..(Len(result.ops) - 1) :
        /\ result.ops[i] = InstallMod("c", result.ops[i].version)
        /\ result.ops[i - 1].op = "UninstallMod"
        /\ result.ops[i - 2].op = "UninstallMod"
        /\ result.ops[i + 1].mod_id # "c"

----------------------------------------------------------------------------
(* Further properties of the registry refresh *)

\* C25: a registry snapshot a reader obtained stays unchanged for as long
\* as the reader holds it, under every interleaving with update_list:
\* update_list points the cell to a new allocation and never writes to one
\* that was published before.
C25_SnapshotStable ==
    /\ reader_pc # "idle" =>
        /\ arcs[reader_arc].live
        /\ arcs[reader_arc].value = reader_view.mod_list
    /\ arcs # << >> => arcs[cell_arc] = Live(cell_mod_list)

\* C25 witness: the reader still holds the snapshot it loaded after two
\* calls of update_list replaced it
C25_Witness ==
    /\ reader_pc # "idle"
    /\ reader_arc # cell_arc
    /\ updates = 3
    /\ reader_view.mod_list = snapshots[1]
    /\ cell_mod_list = snapshots[3]

----------------------------------------------------------------------------
(* check_for_conflicts on what perform_operations left *)

\* virt.check_for_conflicts(&mods) is called on the VirtualInstall once its
\* perform_operations has returned
CheckStart ==
    /\ install_result # NoResult
    /\ check_pc = "idle"
    /\ map_order' \in MapOrders(installed_mods)
    /\ check_guids' = map_order'.guids
    /\ check_guid' = NoName
    /\ check_versions' = << >>
    /\ install_files' = {}
    /\ conflicts' = << >>
    /\ check_pc' = "loop"
    /\ UNCHANGED << previous_run, resolverVars, executorVars, refreshVars, versionVars >>

\* A registry whose artifacts take their file name from the url ("a.dll"),
\* have neither a filename nor a url that ends in ".dll", or carry a
\* filename and an install_location of their own
InstallCheckRegistry ==
    [a |-> MkDeclaredMod({V1}, << >>, << >>,
                [v \in {V1} |-> << UrlArtifact("a.dll", << "a", 1 >>),
                                   Artifact(Url("download", FALSE), NoName, << "a", 0 >>, NoName) >>]),
     b |-> MkDeclaredMod({V1}, << >>, << >>,
                [v \in {V1} |-> << Artifact(Url("get", FALSE), "b.dll", << "b", 1 >>,
                                            "/Libraries") >>])]

InstallCheckStarts ==
    { MkInstalled([a |-> {}, b |-> ib], InstallCheckRegistry) : ib \in { {}, {V1} } }

InstallCheckPool ==
    { InstallMod("a", V1), InstallMod("b", V1), UninstallMod("a", V1), UninstallMod("b", V1) }

\* A VirtualInstall is handed an operation list and then checked
InitInstallCheck ==
    /\ mod_list = InstallCheckRegistry
    /\ start_install \in InstallCheckStarts
    /\ installed_mods = start_install
    /\ operations \in UNION { [1..n -> InstallCheckPool] : n \in 0..MaxOperations }
    /\ op_index = 1
    /\ install_result = NoResult
    /\ actual_mods = << >>
    /\ actual_index = 0
    /\ actual_result = NoResult
    /\ IdleResolver
    /\ IdleRefresh
    /\ IdleDetector
    /\ IdleVersion

NextInstallCheck ==
    \/ VirtualInstallMod
    \/ VirtualUninstallMod
    \/ VirtualReturnOk
    \/ CheckStart
    \/ CheckNextGuid
    \/ CheckModFile
    \/ CheckReturn

SpecInstallCheck == InitInstallCheck /\ [][NextInstallCheck]_vars

\* C23: a virtual InstallMod(g, v) of a registry version records one
\* installed artifact per declared artifact, at the path check_for_conflicts
\* computes for it, so the check that follows the install reports no
\* IncompleteInstall for (g, v), also when an artifact has no filename and a
\* url that does not end in ".dll".
C23_InstallMatchesDetector ==
    ( /\ CheckReturned
      /\ install_result = InstallOk
      /\ operations # << >>
      /\ operations[Len(operations)].op = "InstallMod" ) =>
        LET g == operations[Len(operations)].mod_id
            v == operations[Len(operations)].version
            declared == mod_list[g].versions[v].artifacts
            file == installed_mods[g][v]
        IN  /\ Len(file.files) = Len(declared)
            /\ \A n \in 1..Len(declared) : file.files[n].file_path = ArtifactFilepath(declared[n])
            /\ \A i \in OfKind(conflicts, { "IncompleteInstall" }) : conflicts[i].this # << g, v >>

----------------------------------------------------------------------------
(* check_for_conflicts on the preview of a resolver plan *)

\* Registries in which a may depend on b and c, b on c and c back on a
PlanRegistries ==
    { MkRegistry([a |-> {V2}, b |-> vb, c |-> vc],
                 [a |-> [b |-> ab, c |-> ac], b |-> [c |-> bc], c |-> [a |-> ca]]) :
        vb \in { {}, {V1} }, vc \in { {}, {V1}, {V1, V3} },
        ab \in { NoReq, Star }, ac \in { NoReq, Star, ReqOne },
        bc \in { NoReq, Star }, ca \in { NoReq, Star } }

PlanInstalls ==
    { [a |-> ia, b |-> ib, c |-> ic] :
        ia \in { {}, {V1} }, ib \in { {}, {V1} }, ic \in { {}, {V1}, {V1, V2} } }

\* resolve_install_mod("a", "*", current_install, mod_list) was called; its
\* plan will be applied to a VirtualInstall, which is then checked
InitPlanCheck ==
    /\ mod_list \in PlanRegistries
    /\ current_install \in { MkInstalled(i, mod_list) : i \in PlanInstalls }
    /\ request = << "a", Star >>
    /\ queue = << request >>
    /\ ops = << >>
    /\ result = NoResult
    /\ pc = "loop"
    /\ IdleExecutors
    /\ IdleRefresh
    /\ IdleDetector
    /\ IdleVersion

NextPlanCheck ==
    \/ ResolveUnableToFind
    \/ ResolveSkipInstalled
    \/ ResolvePlanNode
    \/ ResolveExhausted
    \/ ResolveReturnOk
    \/ PreviewPlan
    \/ VirtualInstallMod
    \/ VirtualUninstallMod
    \/ VirtualReturnOk
    \/ CheckStart
    \/ CheckNextGuid
    \/ CheckModFile
    \/ CheckReturn

SpecPlanCheck == InitPlanCheck /\ [][NextPlanCheck]_vars

\* The positions of the plan that install g
InstallsOf(g) == { i \in 1..Len(operations) : operations[i] = InstallMod(g, operations[i].version) }

\* The plan was applied with Ok and the check of the result has returned
PlanChecked == CheckReturned /\ ReturnedOk /\ install_result = InstallOk

\* C27: after an Ok plan was applied in order to a VirtualInstall holding
\* the resolver's InstalledState, every GUID the plan installs has exactly
\* one version installed and is installed by exactly one operation of the
\* plan, and the check reports no VersionConflict for it.
C27_OneVersionPerGuid ==
    PlanChecked =>
        \A g \in GUIDs : InstallsOf(g) # {} =>
            /\ Cardinality(InstallsOf(g)) = 1
            /\ Cardinality(DOMAIN installed_mods[g]) = 1
            /\ \A i \in OfKind(conflicts, { "VersionConflict" }) : conflicts[i].guid # g

\* C28: after an Ok plan was applied in order to a VirtualInstall holding
\* the resolver's InstalledState, every dependency GUID declared by a
\* version the plan installed is present in the installed state and the
\* check reports no DependencyMissing for that version.
C28_NoDependencyMissing ==
    PlanChecked =>
        \A g \in GUIDs : \A i \in InstallsOf(g) :
            /\ \A d \in DOMAIN DeclaredDependencies(operations[i]) : d \in DOMAIN installed_mods
            /\ \A n \in OfKind(conflicts, { "DependencyMissing" }) :
                    conflicts[n].this # << g, operations[i].version >>

\* C28 witness: the plan installed "a", which declares dependencies on "b"
\* and "c"; "b" was installed before and is not in the plan, "c" is installed
\* by the plan, and the check has returned
C28_Witness ==
    /\ PlanChecked
    /\ \E i \in InstallsOf("a") : DOMAIN DeclaredDependencies(operations[i]) = { "b", "c" }
    /\ InstallsOf("b") = {}
    /\ InstallsOf("c") # {}
    /\ "b" \in DOMAIN start_install

====
